---- MODULE Spec2Model ----
(***************************************************************************)
(* Lifecycle engine of the plux plugin runtime (src/src/loader.rs):        *)
(* managers, plugin records, dependency resolution, load / unload,         *)
(* register / unregister, batch loading, teardown and the request tables.  *)
(***************************************************************************)
EXTENDS Integers, Sequences, FiniteSets, TLC

(***************************************************************************)
(* Bounds of the model.                                                    *)
(***************************************************************************)
\* longest request table kept for one plugin record
MaxPluginRequests == 2
\* longest list of engine Requests
MaxRequests == 2

\* Functions in the registry of one plugin
MaxRegistry == 2

(***************************************************************************)
(* Sequence helpers (Vec / Iterator adapters).                             *)
(***************************************************************************)
Range(s) == {s[i] : i \in 1..Len(s)}

\* Vec::remove(index): the elements after index shift down by one
RemoveAt(s, i) == [j \in 1..(Len(s) - 1) |-> IF j < i THEN s[j] ELSE s[j + 1]]

\* Iterator::position / find over indices: first index satisfying the set
FirstIn(S) == CHOOSE i \in S : \A j \in S : i <= j

\* Iterator::filter, order preserving
RECURSIVE FilterSeq(_, _)
FilterSeq(s, Keep) ==
    IF s = <<>> THEN <<>>
    ELSE IF Head(s) \in Keep THEN <<Head(s)>> \o FilterSeq(Tail(s), Keep)
    ELSE FilterSeq(Tail(s), Keep)

(***************************************************************************)
(* Bundle, Depend and the semver relations.                                *)
(* A Version is a natural number (1 stands for 1.0.0, 2 for 2.0.0 ...); a   *)
(* VersionReq is the interval of versions it admits.                       *)
(***************************************************************************)
Bundle(id, version, format) == [id |-> id, version |-> version, format |-> format]

Depend(id, lo, hi) == [id |-> id, version |-> [lo |-> lo, hi |-> hi]]

\* VersionReq::matches
matches(req, version) == req.lo <= version /\ version <= req.hi

\* impl PartialEq<Bundle> for Depend
DependEqBundle(depend, bundle) ==
    depend.id = bundle.id /\ matches(depend.version, bundle.version)

\* impl PartialEq<Bundle> for Plugin: id and version, the format is ignored
PluginEqBundle(plugin, bundle) ==
    plugin.bundle.id = bundle.id /\ plugin.bundle.version = bundle.version

(***************************************************************************)
(* Bundle names: Display for Bundle and Bundle::from_filename.  A string   *)
(* is the sequence of its characters; a semver Version is the record of    *)
(* its three numbers and its pre-release string (no build metadata).       *)
(***************************************************************************)
Digits == <<"0", "1", "2", "3", "4", "5", "6", "7", "8", "9">>

Letters == {"a", "b", "c", "r", "v"}

IsDigit(c) == \E d \in 1..Len(Digits) : Digits[d] = c

DigitValue(c) == (CHOOSE d \in 1..Len(Digits) : Digits[d] = c) - 1

\* Display for u64
RECURSIVE NumberDisplay(_)
NumberDisplay(n) ==
    IF n < 10 THEN <<Digits[n + 1]>>
    ELSE Append(NumberDisplay(n \div 10), Digits[(n % 10) + 1])

\* the value of a string of digits
RECURSIVE NumberValue(_)
NumberValue(s) ==
    IF s = <<>> THEN 0
    ELSE 10 * NumberValue(SubSeq(s, 1, Len(s) - 1)) + DigitValue(s[Len(s)])

\* semver numeric identifier: digits, no leading zero
IsNumeric(s) ==
    /\ s # <<>>
    /\ \A i \in 1..Len(s) : IsDigit(s[i])
    /\ Len(s) > 1 => s[1] # "0"

\* str::split(sep): the pieces between the separators
RECURSIVE Split(_, _)
Split(s, sep) ==
    LET S == {i \in 1..Len(s) : s[i] = sep}
    IN IF S = {} THEN <<s>>
       ELSE <<SubSeq(s, 1, FirstIn(S) - 1)>> \o Split(SubSeq(s, FirstIn(S) + 1, Len(s)), sep)

\* semver pre-release: dot separated non-empty identifiers of [0-9A-Za-z-],
\* the all-digit ones without leading zero
IsPrerelease(s) ==
    \A k \in 1..Len(Split(s, ".")) :
        LET ident == Split(s, ".")[k]
        IN /\ ident # <<>>
           /\ \A i \in 1..Len(ident) :
                 IsDigit(ident[i]) \/ ident[i] \in Letters \/ ident[i] = "-"
           /\ (\A i \in 1..Len(ident) : IsDigit(ident[i])) => IsNumeric(ident)

Version(major, minor, patch, pre) ==
    [major |-> major, minor |-> minor, patch |-> patch, pre |-> pre]

\* Display for semver::Version
VersionDisplay(version) ==
    NumberDisplay(version.major) \o <<".">> \o NumberDisplay(version.minor)
        \o <<".">> \o NumberDisplay(version.patch)
        \o (IF version.pre = <<>> THEN <<>> ELSE <<"-">> \o version.pre)

\* semver::Version::parse: major.minor.patch, then `-` and the pre-release
VersionParse(s) ==
    LET dash == {i \in 1..Len(s) : s[i] = "-"}
        core == IF dash = {} THEN s ELSE SubSeq(s, 1, FirstIn(dash) - 1)
        pre == IF dash = {} THEN <<>> ELSE SubSeq(s, FirstIn(dash) + 1, Len(s))
        parts == Split(core, ".")
    IN IF Len(parts) # 3 \/ \E k \in 1..Len(parts) : ~IsNumeric(parts[k])
         THEN [res |-> "Err"]
       ELSE IF dash # {} /\ ~IsPrerelease(pre)
         THEN [res |-> "Err"]
       ELSE [res |-> "Ok",
             version |-> Version(NumberValue(parts[1]), NumberValue(parts[2]),
                                 NumberValue(parts[3]), pre)]

\* impl Display for Bundle: "{id}-v{version}.{format}"
fmt(bundle) ==
    bundle.id \o <<"-", "v">> \o VersionDisplay(bundle.version) \o <<".">> \o bundle.format

\* str::rfind: the start of the last occurrence of pat in s, 0 when there is none
rfind(s, pat) ==
    LET S == {i \in 1..(Len(s) - Len(pat) + 1) : SubSeq(s, i, i + Len(pat) - 1) = pat}
    IN IF S = {} THEN 0 ELSE CHOOSE i \in S : \A j \in S : j <= i

\* from_filename once the three parts are drained
BundleOfParts(id, version, format) ==
    IF format = <<>> THEN [res |-> "FormatFailed"]
    ELSE IF version = <<>> THEN [res |-> "VersionFailed"]
    ELSE IF id = <<>> THEN [res |-> "IDFailed"]
    ELSE IF VersionParse(version).res # "Ok" THEN [res |-> "ParseVersion"]
    ELSE [res |-> "Ok", bundle |-> Bundle(id, VersionParse(version).version, format)]

\* from_filename after the format was drained: path ends with the last `.`;
\* the version is what lies between the last "-v" and that `.`, and the id is
\* what precedes the last "-v" of the rest
AfterFormat(path, format) ==
    IF rfind(path, <<"-", "v">>) = 0 THEN [res |-> "VersionFailed"]
    ELSE LET at == rfind(path, <<"-", "v">>)
             version == SubSeq(path, at + 2, Len(path) - 1)
             rest == SubSeq(path, 1, at + 1) \o <<path[Len(path)]>>
         IN IF rfind(rest, <<"-", "v">>) = 0 THEN [res |-> "IDFailed"]
            ELSE BundleOfParts(SubSeq(rest, 1, rfind(rest, <<"-", "v">>) - 1),
                               version, format)

\* Bundle::from_filename
from_filename(filename) ==
    IF rfind(filename, <<".">>) = 0 THEN [res |-> "FormatFailed"]
    ELSE AfterFormat(SubSeq(filename, 1, rfind(filename, <<".">>)),
                     SubSeq(filename, rfind(filename, <<".">>) + 1, Len(filename)))

(***************************************************************************)
(* The plugin directories on disk.  Entry k is the directory whose leaf    *)
(* name is the Display form of Catalog[k].bundle and whose metadata (what  *)
(* the manager's register_plugin hook returns) is depends/optional_depends.*)
(***************************************************************************)
Catalog ==
    << [bundle |-> Bundle("a", 1, "vpl"), depends |-> <<>>, optional_depends |-> <<>>],
       [bundle |-> Bundle("a", 2, "vpl"), depends |-> <<>>, optional_depends |-> <<>>],
       [bundle |-> Bundle("b", 1, "vpl"), depends |-> <<Depend("a", 1, 1)>>,
                                          optional_depends |-> <<>>],
       [bundle |-> Bundle("c", 1, "vpl"), depends |-> <<Depend("b", 1, 1)>>,
                                          optional_depends |-> <<Depend("a", 1, 2)>>],
       [bundle |-> Bundle("d", 2, "fpl"), depends |-> <<Depend("a", 1, 2)>>,
                                          optional_depends |-> <<>>],
       [bundle |-> Bundle("x", 1, "vpl"), depends |-> <<Depend("y", 1, 1)>>,
                                          optional_depends |-> <<>>],
       [bundle |-> Bundle("y", 1, "vpl"), depends |-> <<>>,
                                          optional_depends |-> <<Depend("x", 1, 1)>>],
       [bundle |-> Bundle("a", 1, "fpl"), depends |-> <<>>, optional_depends |-> <<>>],
       [bundle |-> Bundle("e", 2, "vpl"), depends |-> <<>>,
                                          optional_depends |-> <<Depend("a", 1, 2)>>],
       [bundle |-> Bundle("f", 1, "vpl"), depends |-> <<Depend("a", 1, 2)>>,
                                          optional_depends |-> <<>>],
       [bundle |-> Bundle("g", 1, "vpl"),
        depends |-> <<Depend("a", 1, 2), Depend("b", 1, 1)>>,
        optional_depends |-> <<>>],
       [bundle |-> Bundle("h", 1, "fpl"), depends |-> <<Depend("a", 1, 1)>>,
                                          optional_depends |-> <<>>],
       [bundle |-> Bundle("a", 3, "vpl"), depends |-> <<>>, optional_depends |-> <<>>] >>

Paths == 1..Len(Catalog)

\* the formats for which the host has a manager implementation
Formats == {"vpl", "fpl"}

\* capacity of the managers Vec: no reallocation happens below it
ManagerSlots == 1..Cardinality(Formats)

(***************************************************************************)
(* Requests and Functions of the request layer.                            *)
(***************************************************************************)
None == "None"

Request(name, inputs, output) == [name |-> name, inputs |-> inputs, output |-> output]

\* a Function is described by its signature: name, input types, output type
Function(name, inputs, output) == [name |-> name, inputs |-> inputs, output |-> output]

\* the Requests a host may declare
HostRequests ==
    { Request("echo", <<"String">>, "String"),
      Request("main", <<>>, None),
      Request("echo", <<"I32">>, "String") }

\* what a manager may offer from inside one load hook: nothing, one Function,
\* a Function of the wrong output type, the same Function twice, two names in
\* either order
HookOffers ==
    { <<>>,
      <<Function("echo", <<"String">>, "String")>>,
      <<Function("main", <<>>, None)>>,
      <<Function("echo", <<"String">>, "I32")>>,
      <<Function("echo", <<"String">>, "String"), Function("echo", <<"String">>, "String")>>,
      <<Function("echo", <<"String">>, "String"), Function("main", <<>>, None)>>,
      <<Function("main", <<>>, None), Function("echo", <<"String">>, "String")>> }

(***************************************************************************)
(* State.                                                                  *)
(***************************************************************************)
VARIABLES
    managers,   \* Loader.managers: formats of the manager slots, in Vec order
    slots,      \* raw buffer of Loader.managers: what each slot address holds
    plugins,    \* Loader.plugins: the plugin records, in Vec order
    requests,   \* Loader.requests
    proto,      \* per directory: where the manager stands in the hook protocol
    log,        \* manager hook calls made by the last engine operation
    lastOp,     \* the last engine operation, its arguments and its result
    before,     \* the lists as they were before the last register_plugin, kept
                \* over an unregister_plugin of the same directory right after it
    env         \* what the host and the disk provide (fixed by Init)

vars == <<managers, slots, plugins, requests, proto, log, lastOp, before, env>>

\* the plugin was handed no Api (it was never loaded, or it was unloaded)
NoApi == [depends |-> <<>>, optional_depends |-> <<>>, held |-> FALSE]

\* Api::new: the Bundles of the resolved required and optional dependencies
Api(depends, optional_depends) ==
    [depends |-> depends, optional_depends |-> optional_depends, held |-> TRUE]

\* Plugin::new; api is the Api that the manager holds for the plugin
Plugin(manager, path) ==
    [ manager |-> manager,
      path |-> path,
      bundle |-> Catalog[path].bundle,
      depends |-> Catalog[path].depends,
      optional_depends |-> Catalog[path].optional_depends,
      is_load |-> FALSE,
      requests |-> <<>>,
      registry |-> <<>>,
      api |-> NoApi ]

\* the engine as one value, threaded through the private_loader functions
Loader == [ managers |-> managers, slots |-> slots, plugins |-> plugins,
            requests |-> requests, proto |-> proto, log |-> log ]

NoOp == [op |-> "new", path |-> 0, format |-> "", res |-> "Ok",
         found |-> <<>>, not_found |-> <<>>]

Op(op, path, format, res) ==
    [op |-> op, path |-> path, format |-> format, res |-> res,
     found |-> <<>>, not_found |-> <<>>]

\* the process died (stack exhaustion, or a panic): no further operation runs
Aborted == lastOp.res \in {"Overflow", "Panic"}

\* no register_plugin to look back to
NoSnapshot == [path |-> 0]

\* the lists before the operation, remembered for a register_plugin that
\* succeeds and handed on by the unregister_plugin that directly follows it
Snapshot(op) ==
    IF op.op = "register_plugin" /\ op.res = "Ok"
      THEN [path |-> op.path, plugins |-> plugins, managers |-> managers,
            requests |-> requests]
    ELSE IF /\ op.op = "unregister_plugin"
            /\ lastOp.op = "register_plugin" /\ lastOp.res = "Ok"
            /\ lastOp.path = op.path
      THEN before
    ELSE NoSnapshot

Commit(L, op) ==
    /\ before' = Snapshot(op)
    /\ managers' = L.managers
    /\ slots' = L.slots
    /\ plugins' = L.plugins
    /\ requests' = L.requests
    /\ proto' = L.proto
    /\ log' = L.log
    /\ lastOp' = op
    /\ UNCHANGED env

\* Loader::new
NewLoader ==
    /\ managers = <<>>
    /\ slots = [s \in ManagerSlots |-> ""]
    /\ plugins = <<>>
    /\ requests = <<>>
    /\ proto = [k \in Paths |-> "absent"]
    /\ log = <<>>
    /\ lastOp = NoOp
    /\ before = NoSnapshot

(***************************************************************************)
(* Manager hooks.  A hook call is logged with the record's is_load flag at  *)
(* the time of the call; a successful call advances the protocol state of  *)
(* the plugin: absent -> registered <-> loaded, registered -> absent.      *)
(***************************************************************************)
HookOk(L, hook, target) == <<hook, target>> \notin env.failing

ProtoNext(state, hook) ==
    CASE hook = "register_plugin" /\ state = "absent" -> "registered"
      [] hook = "load_plugin" /\ state = "registered" -> "loaded"
      [] hook = "unload_plugin" /\ state = "loaded" -> "registered"
      [] hook = "unregister_plugin" /\ state = "registered" -> "absent"
      [] OTHER -> "broken"

\* a plugin hook, received by the manager with the given format
CallHook(L, hook, path, is_load, format) ==
    LET ok == HookOk(L, hook, path)
    IN [L EXCEPT !.log = Append(@, [hook |-> hook, path |-> path, format |-> format,
                                     is_load |-> is_load, ok |-> ok]),
                 !.proto[path] = IF ok THEN ProtoNext(@, hook) ELSE @]

\* Manager::register_manager / Manager::unregister_manager
CallManagerHook(L, hook, format) ==
    [L EXCEPT !.log = Append(@, [hook |-> hook, path |-> 0, format |-> format,
                                  is_load |-> FALSE, ok |-> HookOk(L, hook, format)])]

(***************************************************************************)
(* Managers.                                                               *)
(***************************************************************************)
\* Vec::push into the managers buffer
PushManager(L, format) ==
    [L EXCEPT !.managers = Append(@, format),
              !.slots[Len(L.managers) + 1] = format]

\* private_loader::forced_register_manager
forced_register_manager(L, format) ==
    LET L1 == CallManagerHook(L, "register_manager", format)
    IN IF HookOk(L, "register_manager", format)
         THEN [L |-> PushManager(L1, format), res |-> "Ok"]
       ELSE [L |-> L1, res |-> "ByManager"]

\* register_manager without the `managers.iter().any(|m| m.format() == ..)` test
register_manager_unchecked(L, format) == forced_register_manager(L, format)

\* private_loader::register_manager
register_manager(L, format) ==
    IF \E i \in 1..Len(L.managers) : L.managers[i] = format
    THEN [L |-> L, res |-> "AlreadyOccupiedFormat"]
    ELSE forced_register_manager(L, format)

\* Loader::get_manager_mut: the slot of the first manager with the format
get_manager_mut(L, format) ==
    LET S == {i \in 1..Len(L.managers) : L.managers[i] = format}
    IN IF S = {} THEN 0 ELSE FirstIn(S)

\* Ptr::as_ref on a plugin's manager back-reference: what the slot holds
ManagerOf(L, plugin) == L.slots[plugin.manager]

(***************************************************************************)
(* Plugin registration.                                                    *)
(***************************************************************************)
\* Loader::get_plugin_by_bundle / position(|plugin| *plugin == *bundle)
PluginIndex(L, bundle) ==
    LET S == {i \in 1..Len(L.plugins) : PluginEqBundle(L.plugins[i], bundle)}
    IN IF S = {} THEN 0 ELSE FirstIn(S)

\* private_loader::forced_register_plugin
forced_register_plugin(L, manager, path) ==
    [L EXCEPT !.plugins = Append(@, Plugin(manager, path))]

\* register_plugin without the `plugins.iter().any(|p| p.info.bundle == bundle)` test
register_plugin_unchecked(L, path) ==
    IF get_manager_mut(L, Catalog[path].bundle.format) = 0
      THEN [L |-> L, res |-> "UnknownManagerFormat"]
    ELSE [L |-> forced_register_plugin(
                    CallHook(L, "register_plugin", path, FALSE, Catalog[path].bundle.format),
                    get_manager_mut(L, Catalog[path].bundle.format), path),
          res |-> "Ok"]

\* private_loader::register_plugin for an existing, well-named directory
register_plugin(L, path) ==
    LET bundle == Catalog[path].bundle
        manager == get_manager_mut(L, bundle.format)
    IN IF PluginIndex(L, bundle) # 0
         THEN [L |-> L, res |-> "AlreadyExistsIDAndVersion"]
       ELSE IF manager = 0
         THEN [L |-> L, res |-> "UnknownManagerFormat"]
       ELSE IF ~HookOk(L, "register_plugin", path)
         THEN [L |-> CallHook(L, "register_plugin", path, FALSE, L.managers[manager]),
               res |-> "ByManager"]
       ELSE [L |-> forced_register_plugin(
                       CallHook(L, "register_plugin", path, FALSE, L.managers[manager]),
                       manager, path),
             res |-> "Ok"]

(***************************************************************************)
(* Dependency resolution as the code computes it.                          *)
(***************************************************************************)
\* every Depend of a record, required ones first (depends().chain(optional_depends()))
AllDepends(plugin) == plugin.depends \o plugin.optional_depends

\* the closure used by load_depends, unload_plugin, sort_plugins, sort_pick and
\* load_plugins: the Depend matches the bundle, and no plugin of the list has
\* a version the range admits that is greater than the bundle's version
IsBestMatch(L, depend, bundle) ==
    /\ DependEqBundle(depend, bundle)
    /\ ~\E i \in 1..Len(L.plugins) :
          /\ matches(depend.version, L.plugins[i].bundle.version)
          /\ L.plugins[i].bundle.version > bundle.version

\* the lookup of load_depends taking the first record the Depend admits
FindDependFirstAdmitted(L, depend) ==
    LET S == {i \in 1..Len(L.plugins) : DependEqBundle(depend, L.plugins[i].bundle)}
    IN IF S = {} THEN 0 ELSE FirstIn(S)

\* loader.plugins.iter().enumerate().find(..) of load_depends: 0 when not found
FindDepend(L, depend) ==
    LET S == {i \in 1..Len(L.plugins) : IsBestMatch(L, depend, L.plugins[i].bundle)}
    IN IF S = {} THEN 0 ELSE FirstIn(S)

(***************************************************************************)
(* Request tables.                                                         *)
(***************************************************************************)
\* register_request demanding the inputs of the Request in the same order
RegisterRequestResultOrdered(reqs, f) ==
    LET S == {i \in 1..Len(reqs) : reqs[i].name = f.name}
    IN IF S = {} THEN "NotFound"
       ELSE IF reqs[FirstIn(S)].inputs # f.inputs THEN "ArgumentsIncorrectly"
       ELSE IF reqs[FirstIn(S)].output # f.output THEN "ArgumentsIncorrectly"
       ELSE "Ok"

\* LoadPluginContext::register_request: the table after the call
RegisterRequestResult(reqs, f) ==
    LET S == {i \in 1..Len(reqs) : reqs[i].name = f.name}
    IN IF S = {} THEN "NotFound"
       ELSE LET req == reqs[FirstIn(S)]
            IN IF \E i \in 1..Len(req.inputs) :
                     ~\E j \in 1..Len(f.inputs) : req.inputs[i] = f.inputs[j]
                 THEN "ArgumentsIncorrectly"
               ELSE IF req.output # f.output THEN "ArgumentsIncorrectly"
               ELSE "Ok"

register_request(reqs, table, f) ==
    IF RegisterRequestResult(reqs, f) = "Ok" THEN Append(table, f) ELSE table

\* what the calls of register_request inside one load hook returned
RegisterRequestCalls(reqs, plugin, fs) ==
    [k \in 1..Len(fs) |->
        [hook |-> "register_request", path |-> plugin.path,
         format |-> plugin.bundle.format, is_load |-> plugin.is_load,
         ok |-> RegisterRequestResult(reqs, fs[k]) = "Ok",
         res |-> RegisterRequestResult(reqs, fs[k])]]

\* the load hook of a manager: it offers the Functions fs, one by one
RECURSIVE HookRegisterRequests(_, _, _)
HookRegisterRequests(reqs, table, fs) ==
    IF fs = <<>> THEN table
    ELSE HookRegisterRequests(reqs, register_request(reqs, table, Head(fs)), Tail(fs))

\* private_loader::check_requests: one iterator over the plugin's table is
\* shared by all engine Requests; `any` advances it past the first hit, or to
\* the end when there is none.  pos is the next position of that iterator.
RECURSIVE CheckRequestsFrom(_, _, _)
CheckRequestsFrom(reqs, table, pos) ==
    IF reqs = <<>> THEN <<>>
    ELSE LET S == {j \in pos..Len(table) : table[j].name = Head(reqs).name}
         IN IF S = {}
              THEN <<Head(reqs).name>> \o CheckRequestsFrom(Tail(reqs), table, Len(table) + 1)
            ELSE CheckRequestsFrom(Tail(reqs), table, FirstIn(S) + 1)

\* check_requests reporting nothing missing
check_requests_skipped(L, index) == <<>>

check_requests(L, index) == CheckRequestsFrom(L.requests, L.plugins[index].requests, 1)

(***************************************************************************)
(* Loading.  hf maps a directory to the Functions its load hook offers;    *)
(* stack holds the indices whose load_plugin call is still open: entering  *)
(* one of them again repeats the same calls without end (the records did   *)
(* not change), which exhausts the stack.                                  *)
(***************************************************************************)
\* the `for (bundle, is_depend) in depends` split of forced_load_plugin
SplitDepends(depends, is_depend) ==
    LET S == FilterSeq(depends, {d \in Range(depends) : d.is_depend = is_depend})
    IN [k \in 1..Len(S) |-> S[k].bundle]

\* private_loader::forced_load_plugin
forced_load_plugin(L, index, depends, hf) ==
    LET plugin == L.plugins[index]
        L1 == CallHook(L, "load_plugin", plugin.path, plugin.is_load, ManagerOf(L, plugin))
    IN IF ~HookOk(L, "load_plugin", plugin.path)
         THEN [L |-> L1, res |-> "ByManager"]
       ELSE [L |-> [L1 EXCEPT !.plugins[index].requests =
                                  HookRegisterRequests(L.requests, @, hf[plugin.path]),
                              !.log = @ \o RegisterRequestCalls(L.requests, plugin,
                                                                hf[plugin.path]),
                              !.plugins[index].api =
                                  Api(SplitDepends(depends, TRUE),
                                      SplitDepends(depends, FALSE)),
                              !.plugins[index].is_load = TRUE],
             res |-> "Ok"]

RECURSIVE load_plugin(_, _, _, _)
RECURSIVE load_depends(_, _, _, _, _, _)
RECURSIVE LoadDepend(_, _, _, _, _, _, _)

\* the body of the `for (is_depend, depend) in depends_iter` loop of
\* load_depends for a Depend that was found at index; r is what load_plugin
\* returned for it
LoadDepend(L, deps, r, found, not_found, stack, hf) ==
    IF r.res = "Ok"
      THEN load_depends(r.L, Tail(deps),
               Append(found, [bundle |-> L.plugins[FindDepend(L, Head(deps).depend)].bundle,
                              is_depend |-> Head(deps).is_depend]),
               not_found, stack, hf)
    ELSE [L |-> r.L,
          res |-> IF r.res = "Overflow" THEN "Overflow" ELSE "LoadDependency",
          found |-> found, not_found |-> not_found]

\* private_loader::load_depends
load_depends(L, deps, found, not_found, stack, hf) ==
    IF deps = <<>>
      THEN [L |-> L, res |-> "Ok", found |-> found, not_found |-> not_found]
    ELSE IF FindDepend(L, Head(deps).depend) # 0
      THEN LoadDepend(L, deps,
                      load_plugin(L, FindDepend(L, Head(deps).depend), stack, hf),
                      found, not_found, stack, hf)
    ELSE load_depends(L, Tail(deps), found,
             IF Head(deps).is_depend THEN Append(not_found, Head(deps).depend)
             ELSE not_found,
             stack, hf)

\* depends().map(|d| (true, d)).chain(optional_depends().map(|d| (false, d)))
DependsIter(plugin) ==
    [i \in 1..Len(plugin.depends) |-> [is_depend |-> TRUE, depend |-> plugin.depends[i]]]
    \o [i \in 1..Len(plugin.optional_depends) |->
           [is_depend |-> FALSE, depend |-> plugin.optional_depends[i]]]

\* load_plugin after forced_load_plugin returned h: check_requests, and on
\* missing Requests the flag is cleared again
LoadChecked(r, h, index) ==
    IF h.res # "Ok" THEN [r EXCEPT !.L = h.L, !.res = h.res]
    ELSE IF check_requests(h.L, index) # <<>>
      THEN [r EXCEPT !.L = [h.L EXCEPT !.plugins[index].is_load = FALSE],
                     !.res = "RequestsNotFound",
                     !.not_found = check_requests(h.L, index)]
    ELSE [r EXCEPT !.L = h.L]

\* load_plugin after load_depends returned r
LoadAfterDepends(r, index, hf) ==
    IF r.res # "Ok" THEN r
    ELSE IF r.not_found # <<>> THEN [r EXCEPT !.res = "NotFoundDependencies"]
    ELSE LoadChecked(r, forced_load_plugin(r.L, index, r.found, hf), index)

\* load_plugin without the `if loader.plugins[index].is_load { return Ok(()) }` test
load_plugin_reloading(L, index, stack, hf) ==
    IF index \in stack
      THEN [L |-> L, res |-> "Overflow", found |-> <<>>, not_found |-> <<>>]
    ELSE LoadAfterDepends(
             load_depends(L, DependsIter(L.plugins[index]), <<>>, <<>>,
                          stack \cup {index}, hf),
             index, hf)

\* private_loader::load_plugin
load_plugin(L, index, stack, hf) ==
    IF L.plugins[index].is_load
      THEN [L |-> L, res |-> "Ok", found |-> <<>>, not_found |-> <<>>]
    ELSE IF index \in stack
      THEN [L |-> L, res |-> "Overflow", found |-> <<>>, not_found |-> <<>>]
    ELSE LoadAfterDepends(
             load_depends(L, DependsIter(L.plugins[index]), <<>>, <<>>,
                          stack \cup {index}, hf),
             index, hf)

(***************************************************************************)
(* Unloading and unregistering.                                            *)
(***************************************************************************)
\* private_loader::forced_unload_plugin
forced_unload_plugin(L, index) ==
    LET plugin == L.plugins[index]
    IN IF plugin.is_load
         THEN LET L1 == CallHook(L, "unload_plugin", plugin.path, plugin.is_load,
                                 ManagerOf(L, plugin))
              IN IF HookOk(L, "unload_plugin", plugin.path)
                   THEN [L |-> [L1 EXCEPT !.plugins[index].is_load = FALSE,
                                          !.plugins[index].api = NoApi],
                         res |-> "Ok"]
                 ELSE [L |-> L1, res |-> "ByManager"]
       ELSE [L |-> L, res |-> "Ok"]

\* the closure of unload_plugin without the higher-version escape
UsesDependAnyVersion(L, plug, bundle) ==
    /\ plug.is_load
    /\ \E i \in 1..Len(AllDepends(plug)) : DependEqBundle(AllDepends(plug)[i], bundle)

\* the try_for_each closure of unload_plugin: plug is loaded and one of its
\* Depends has the bundle as best match
UsesDepend(L, plug, bundle) ==
    /\ plug.is_load
    /\ \E i \in 1..Len(AllDepends(plug)) : IsBestMatch(L, AllDepends(plug)[i], bundle)

\* unload_plugin without the `if plugins[index].is_load` test around the check
unload_plugin_checking_unloaded(L, index) ==
    IF \E i \in 1..Len(L.plugins) : UsesDepend(L, L.plugins[i], L.plugins[index].bundle)
      THEN [L |-> L, res |-> "CurrentlyUsesDepend"]
    ELSE forced_unload_plugin(L, index)

\* private_loader::unload_plugin
unload_plugin(L, index) ==
    IF /\ L.plugins[index].is_load
       /\ \E i \in 1..Len(L.plugins) : UsesDepend(L, L.plugins[i], L.plugins[index].bundle)
      THEN [L |-> L, res |-> "CurrentlyUsesDepend"]
    ELSE forced_unload_plugin(L, index)

\* forced_unregister_plugin without `plugins.remove(index)`
forced_unregister_plugin_keeping(L, index) ==
    [L |-> CallHook(L, "unregister_plugin", L.plugins[index].path,
                    L.plugins[index].is_load, ManagerOf(L, L.plugins[index])),
     res |-> IF HookOk(L, "unregister_plugin", L.plugins[index].path)
               THEN "Ok" ELSE "ByManager"]

\* private_loader::forced_unregister_plugin
forced_unregister_plugin(L, index) ==
    LET plugin == L.plugins[index]
        L1 == CallHook([L EXCEPT !.plugins = RemoveAt(@, index)],
                       "unregister_plugin", plugin.path, plugin.is_load,
                       ManagerOf(L, plugin))
    IN [L |-> L1,
        res |-> IF HookOk(L, "unregister_plugin", plugin.path) THEN "Ok" ELSE "ByManager"]

\* unregister_plugin after unload_plugin returned u
UnregisterUnloaded(u, index) ==
    IF u.res # "Ok" THEN [L |-> u.L, res |-> "UnloadError"]
    ELSE forced_unregister_plugin(u.L, index)

\* unregister_plugin without the `?` on unload_plugin
unregister_plugin_ignoring_unload(L, index) ==
    forced_unregister_plugin(unload_plugin(L, index).L, index)

\* private_loader::unregister_plugin
unregister_plugin(L, index) == UnregisterUnloaded(unload_plugin(L, index), index)

(***************************************************************************)
(* Teardown order: sort_plugins and sort_pick.                             *)
(***************************************************************************)
\* result.iter().any(|inx| plugins[*inx].info.bundle == plug_info.bundle)
BundleInResult(L, result, bundle) ==
    \E k \in 1..Len(result) : L.plugins[result[k]].bundle = bundle

RECURSIVE sort_pick(_, _, _, _)
RECURSIVE SortPickDepends(_, _, _, _)

\* the `'outer: for depend in depends` loop of sort_pick
SortPickDepends(L, plugins_set, deps, result) ==
    IF deps = <<>> THEN result
    ELSE LET depend == Head(deps)
             picked == \E k \in 1..Len(result) :
                          IsBestMatch(L, depend, L.plugins[result[k]].bundle)
             \* a member of the set that is not the best match, is not in the
             \* result yet and lists the same Depend: `continue 'outer`
             deferred == \E k \in 1..Len(plugins_set) :
                 LET plug_info == L.plugins[plugins_set[k]]
                 IN /\ ~IsBestMatch(L, depend, plug_info.bundle)
                    /\ ~BundleInResult(L, result, plug_info.bundle)
                    /\ \/ depend \in Range(plug_info.depends)
                       \/ depend \in Range(plug_info.optional_depends)
             best == {k \in 1..Len(plugins_set) :
                         IsBestMatch(L, depend, L.plugins[plugins_set[k]].bundle)}
             \* `plugin = Some(index)`: the last best match of the set wins
             plugin == IF best = {} THEN 0
                       ELSE plugins_set[CHOOSE k \in best : \A j \in best : j <= k]
         IN IF picked \/ deferred \/ plugin = 0
              THEN SortPickDepends(L, plugins_set, Tail(deps), result)
            ELSE SortPickDepends(L, plugins_set, Tail(deps),
                                 sort_pick(L, plugins_set, plugin, result))

\* private_loader::sort_pick
sort_pick(L, plugins_set, index, result) ==
    SortPickDepends(L, plugins_set, AllDepends(L.plugins[index]), Append(result, index))

\* the find_map of sort_plugins: first record one of whose Depends has the
\* bundle as best match (0 when there is none)
FindDependent(L, bundle) ==
    LET S == {i \in 1..Len(L.plugins) :
                 \E k \in 1..Len(AllDepends(L.plugins[i])) :
                     IsBestMatch(L, AllDepends(L.plugins[i])[k], bundle)}
    IN IF S = {} THEN 0 ELSE FirstIn(S)

RECURSIVE SortPluginsFrom(_, _, _, _)
SortPluginsFrom(L, plugins_set, rest, result) ==
    IF rest = <<>> THEN result
    ELSE LET index == Head(rest)
             find_plugin == FindDependent(L, L.plugins[index].bundle)
         IN IF find_plugin # 0 /\ find_plugin \in Range(plugins_set)
              THEN SortPluginsFrom(L, plugins_set, Tail(rest), result)
            ELSE SortPluginsFrom(L, plugins_set, Tail(rest),
                                 sort_pick(L, plugins_set, index, result))

\* private_loader::sort_plugins
sort_plugins(L, plugins_set) == SortPluginsFrom(L, plugins_set, plugins_set, <<>>)

(***************************************************************************)
(* Managers: unregistering, and stop.                                      *)
(***************************************************************************)
\* private_loader::forced_unregister_manager: Vec::remove leaves the bytes of
\* the old last slot in place
forced_unregister_manager(L, index) ==
    LET L1 == [L EXCEPT !.managers = RemoveAt(@, index),
                        !.slots = [s \in ManagerSlots |->
                                      IF s >= index /\ s < Len(L.managers)
                                        THEN L.slots[s + 1] ELSE L.slots[s]]]
    IN [L |-> CallManagerHook(L1, "unregister_manager", L.managers[index]),
        res |-> IF HookOk(L, "unregister_manager", L.managers[index])
                  THEN "Ok" ELSE "UnregisterManagerByManager"]

\* `for index in sort_plugins.iter() { unload_plugin(..)? }`; u is what
\* unload_plugin returned for the head of rest
RECURSIVE UnloadEach(_, _)
RECURSIVE UnloadNext(_, _)
UnloadNext(u, rest) ==
    IF u.res # "Ok" THEN [L |-> u.L, res |-> "UnloadError"]
    ELSE UnloadEach(u.L, Tail(rest))

UnloadEach(L, order) ==
    IF order = <<>> THEN [L |-> L, res |-> "Ok"]
    ELSE UnloadNext(unload_plugin(L, Head(order)), order)

\* the index a shifted removal uses: the original index less the number of
\* smaller indices removed before it
ShiftedIndex(index, old_indexs) ==
    index - Cardinality({k \in 1..Len(old_indexs) : index > old_indexs[k]})

\* the index-shifted removals of unregister_manager (forced_unregister_plugin,
\* unload = FALSE) and of load_only_used_plugins (unregister_plugin, unload = TRUE);
\* Vec::remove panics on an index past the end
RECURSIVE UnregisterShifted(_, _, _, _)
RECURSIVE UnregisterNext(_, _, _, _)
UnregisterNext(u, order, old_indexs, unload) ==
    IF u.res # "Ok" THEN u
    ELSE UnregisterShifted(u.L, Tail(order), Append(old_indexs, Head(order)), unload)

UnregisterShifted(L, order, old_indexs, unload) ==
    IF order = <<>> THEN [L |-> L, res |-> "Ok"]
    ELSE IF \/ ShiftedIndex(Head(order), old_indexs) < 1
            \/ ShiftedIndex(Head(order), old_indexs) > Len(L.plugins)
      THEN [L |-> L, res |-> "Panic"]
    ELSE UnregisterNext(
             IF unload THEN unregister_plugin(L, ShiftedIndex(Head(order), old_indexs))
             ELSE forced_unregister_plugin(L, ShiftedIndex(Head(order), old_indexs)),
             order, old_indexs, unload)

\* the records whose manager back-reference designates the manager at index
PluginsFromManager(L, index) ==
    FilterSeq([i \in 1..Len(L.plugins) |-> i],
              {i \in 1..Len(L.plugins) : ManagerOf(L, L.plugins[i]) = L.managers[index]})

\* unregister_manager after the removals returned r
UnregisterManagerLast(r, index) ==
    IF r.res # "Ok" THEN r ELSE forced_unregister_manager(r.L, index)

\* unregister_manager after the unload pass returned u
UnregisterManagerPlugins(u, order, index) ==
    IF u.res # "Ok" THEN u
    ELSE UnregisterManagerLast(UnregisterShifted(u.L, order, <<>>, FALSE), index)

\* unregister_manager once sort_plugins returned order
UnregisterManagerSorted(L, order, index) ==
    UnregisterManagerPlugins(UnloadEach(L, order), order, index)

\* private_loader::unregister_manager
unregister_manager(L, index) ==
    UnregisterManagerSorted(L, sort_plugins(L, PluginsFromManager(L, index)), index)

\* the unload pass of stop_plugins: every index is attempted, failures are collected
RECURSIVE ForcedUnloadEach(_, _, _)
ForcedUnloadEach(L, order, failed) ==
    IF order = <<>> THEN [L |-> L, res |-> IF failed THEN "UnregisterPluginFailed" ELSE "Ok"]
    ELSE LET u == forced_unload_plugin(L, Head(order))
         IN ForcedUnloadEach(u.L, Tail(order), failed \/ u.res # "Ok")

\* the unregister pass of stop_plugins: forced_unregister_plugin(0), len times
RECURSIVE ForcedUnregisterAll(_, _, _)
ForcedUnregisterAll(L, n, failed) ==
    IF n = 0 THEN [L |-> L, res |-> IF failed THEN "UnregisterPluginFailed" ELSE "Ok"]
    ELSE LET u == forced_unregister_plugin(L, 1)
         IN ForcedUnregisterAll(u.L, n - 1, failed \/ u.res # "Ok")

\* stop_plugins after the unload pass returned u
StopPluginsUnloaded(u) ==
    IF u.res # "Ok" THEN u
    ELSE ForcedUnregisterAll(u.L, Len(u.L.plugins), FALSE)

\* private_loader::stop_plugins
stop_plugins(L) ==
    StopPluginsUnloaded(
        ForcedUnloadEach(L, sort_plugins(L, [i \in 1..Len(L.plugins) |-> i]), FALSE))

\* private_loader::stop_managers
RECURSIVE StopManagersFrom(_, _)
StopManagersFrom(L, failed) ==
    IF L.managers = <<>>
      THEN [L |-> L, res |-> IF failed THEN "UnregisterManagerFailed" ELSE "Ok"]
    ELSE LET u == forced_unregister_manager(L, 1)
         IN StopManagersFrom(u.L, failed \/ u.res # "Ok")

stop_managers(L) == StopManagersFrom(L, FALSE)

\* Loader::stop after stop_plugins returned p
StopAfterPlugins(p) == IF p.res # "Ok" THEN p ELSE stop_managers(p.L)

\* Loader::stop
stop(L) == StopAfterPlugins(stop_plugins(L))

(***************************************************************************)
(* Batch operations.                                                       *)
(***************************************************************************)
\* Loader::register_plugins: collect::<Result<Vec<_>, _>>() stops at the first
\* error; r is what register_plugin returned for the head of paths
RECURSIVE register_plugins(_, _, _)
RECURSIVE RegisterNext(_, _, _)
RegisterNext(r, paths, bundles) ==
    IF r.res # "Ok" THEN [L |-> r.L, res |-> r.res, bundles |-> bundles]
    ELSE register_plugins(r.L, Tail(paths), Append(bundles, Catalog[Head(paths)].bundle))

register_plugins(L, paths, bundles) ==
    IF paths = <<>> THEN [L |-> L, res |-> "Ok", bundles |-> bundles]
    ELSE RegisterNext(register_plugin(L, Head(paths)), paths, bundles)

\* "plugins that are not dependencies of other plugins", in list order
NotDependencies(L) ==
    FilterSeq([i \in 1..Len(L.plugins) |-> i],
              {i \in 1..Len(L.plugins) : FindDependent(L, L.plugins[i].bundle) = 0})

\* `try_for_each(|index| load_plugin(self, index))`; r is what load_plugin
\* returned for the head of order
RECURSIVE LoadEach(_, _, _)
RECURSIVE LoadNext(_, _, _)
LoadNext(r, order, hf) ==
    IF r.res # "Ok" THEN [L |-> r.L, res |-> r.res]
    ELSE LoadEach(r.L, Tail(order), hf)

LoadEach(L, order, hf) ==
    IF order = <<>> THEN [L |-> L, res |-> "Ok"]
    ELSE LoadNext(load_plugin(L, Head(order), {}, hf), order, hf)

\* load_plugins after the load pass returned l
LoadPluginsLoaded(l, bundles) == [L |-> l.L, res |-> l.res, bundles |-> bundles]

\* load_plugins after register_plugins returned r
LoadPluginsRegistered(r, hf) ==
    IF r.res # "Ok" THEN r
    ELSE LoadPluginsLoaded(LoadEach(r.L, NotDependencies(r.L), hf), r.bundles)

\* Loader::load_plugins
load_plugins(L, paths, hf) == LoadPluginsRegistered(register_plugins(L, paths, <<>>), hf)

\* the partition of load_only_used_plugins: no record with the same id and a
\* greater version
IsHighestVersion(L, index) ==
    ~\E i \in 1..Len(L.plugins) :
        /\ L.plugins[i].bundle.id = L.plugins[index].bundle.id
        /\ L.plugins[i].bundle.version > L.plugins[index].bundle.version

\* the bundles of the records the shifted removals take out, in that order
RECURSIVE ShiftedBundles(_, _, _)
ShiftedBundles(plugs, order, old_indexs) ==
    IF order = <<>> THEN {}
    ELSE IF \/ ShiftedIndex(Head(order), old_indexs) < 1
            \/ ShiftedIndex(Head(order), old_indexs) > Len(plugs)
      THEN {}
    ELSE {plugs[ShiftedIndex(Head(order), old_indexs)].bundle}
         \cup ShiftedBundles(RemoveAt(plugs, ShiftedIndex(Head(order), old_indexs)),
                             Tail(order), Append(old_indexs, Head(order)))

\* load_only_used_plugins after the removals returned u: the bundles of the
\* removed records are retained out of the returned list
OnlyUsedRemoved(u, bundles, dropped) ==
    [L |-> u.L, res |-> u.res, bundles |-> FilterSeq(bundles, Range(bundles) \ dropped)]

\* load_only_used_plugins after the load pass returned l
OnlyUsedLoaded(l, unused, bundles) ==
    IF l.res # "Ok" THEN [L |-> l.L, res |-> l.res, bundles |-> <<>>]
    ELSE OnlyUsedRemoved(UnregisterShifted(l.L, unused, <<>>, TRUE), bundles,
                         ShiftedBundles(l.L.plugins, unused, <<>>))

\* load_only_used_plugins once the roots are partitioned
OnlyUsedPartitioned(L, roots, bundles, hf) ==
    OnlyUsedLoaded(
        LoadEach(L, FilterSeq(roots, {i \in Range(roots) : IsHighestVersion(L, i)}), hf),
        FilterSeq(roots, {i \in Range(roots) : ~IsHighestVersion(L, i)}),
        bundles)

\* load_only_used_plugins after register_plugins returned r
OnlyUsedRegistered(r, hf) ==
    IF r.res # "Ok" THEN r
    ELSE OnlyUsedPartitioned(r.L, NotDependencies(r.L), r.bundles, hf)

\* Loader::load_only_used_plugins
load_only_used_plugins(L, paths, hf) ==
    OnlyUsedRegistered(register_plugins(L, paths, <<>>), hf)

(***************************************************************************)
(* Request calls.  The output of a request Function is the pair of the     *)
(* plugin and the table position of the Function; every invocation is      *)
(* logged with the is_load flag of the plugin.                             *)
(***************************************************************************)
Output(plugin, k) == [path |-> plugin.path, function |-> k]

\* Function::call on entry k of the plugin's request table
CallFunction(L, plugin, k) ==
    [L EXCEPT !.log = Append(@, [hook |-> "request", path |-> plugin.path,
                                  format |-> plugin.bundle.format,
                                  is_load |-> plugin.is_load, ok |-> TRUE,
                                  function |-> k])]

\* the table positions whose Function has the name
Named(plugin, name) == {k \in 1..Len(plugin.requests) : plugin.requests[k].name = name}

\* the filter_map of call_request / par_call_request: the records with no
\* record of the same id and a greater version, in list order
NotSuperseded(L) ==
    FilterSeq([i \in 1..Len(L.plugins) |-> i],
              {i \in 1..Len(L.plugins) : IsHighestVersion(L, i)})

\* Loader::call_request over every record (no version filter)
AllRecords(L) == [i \in 1..Len(L.plugins) |-> i]

\* Plugin::call_request for the records of rest, one after the other;
\* collect::<Result<Vec<_>, _>>() stops at the first NotFound
RECURSIVE CallEach(_, _, _, _)
CallEach(L, rest, name, outputs) ==
    IF rest = <<>> THEN [L |-> L, res |-> "Ok", found |-> outputs]
    ELSE IF Named(L.plugins[Head(rest)], name) = {}
      THEN [L |-> L, res |-> "NotFound", found |-> <<>>]
    ELSE CallEach(CallFunction(L, L.plugins[Head(rest)],
                               FirstIn(Named(L.plugins[Head(rest)], name))),
                  Tail(rest), name,
                  Append(outputs, Output(L.plugins[Head(rest)],
                                         FirstIn(Named(L.plugins[Head(rest)], name)))))

\* call_request calling the request of every record
call_request_unfiltered(L, name) == CallEach(L, AllRecords(L), name, <<>>)

\* Loader::call_request
call_request(L, name) == CallEach(L, NotSuperseded(L), name, <<>>)

\* the calls one worker makes on a table: find_map_first runs the closure on
\* the first Function of the name, and (eager) may have run it on later ones
RECURSIVE CallNamed(_, _, _)
CallNamed(L, plugin, ks) ==
    IF ks = <<>> THEN L
    ELSE CallNamed(CallFunction(L, plugin, Head(ks)), plugin, Tail(ks))

WorkerCalls(L, plugin, name, eager) ==
    IF Named(plugin, name) = {} THEN L
    ELSE IF eager
      THEN CallNamed(L, plugin, FilterSeq([k \in 1..Len(plugin.requests) |-> k],
                                          Named(plugin, name)))
    ELSE CallFunction(L, plugin, FirstIn(Named(plugin, name)))

\* the workers of par_call_request, in the order in which they happen to run
RECURSIVE RunWorkers(_, _, _, _, _)
RunWorkers(L, tables, order, name, eager) ==
    IF order = <<>> THEN L
    ELSE RunWorkers(WorkerCalls(L, L.plugins[tables[Head(order)]], name, eager),
                    tables, Tail(order), name, eager)

\* the output of the worker at each position of tables
OutputsByPosition(L, tables, name) ==
    [k \in 1..Len(tables) |->
        Output(L.plugins[tables[k]], FirstIn(Named(L.plugins[tables[k]], name)))]

\* the outputs in the order in which the workers finished
OutputsByCompletion(L, tables, order, name) ==
    [k \in 1..Len(order) |->
        Output(L.plugins[tables[order[k]]],
               FirstIn(Named(L.plugins[tables[order[k]]], name)))]

\* par_call_request collecting the outputs as the workers finish
ParCollectUnordered(L, tables, order, name, eager) ==
    IF \E k \in 1..Len(tables) : Named(L.plugins[tables[k]], name) = {}
      THEN [L |-> RunWorkers(L, tables, order, name, eager), res |-> "NotFound",
            found |-> <<>>]
    ELSE [L |-> RunWorkers(L, tables, order, name, eager), res |-> "Ok",
          found |-> OutputsByCompletion(L, tables, order, name)]

\* par_call_request once the tables are collected: the indexed parallel
\* collect puts each output at the position of its table
ParCollect(L, tables, order, name, eager) ==
    IF \E k \in 1..Len(tables) : Named(L.plugins[tables[k]], name) = {}
      THEN [L |-> RunWorkers(L, tables, order, name, eager), res |-> "NotFound",
            found |-> <<>>]
    ELSE [L |-> RunWorkers(L, tables, order, name, eager), res |-> "Ok",
          found |-> OutputsByPosition(L, tables, name)]

\* Loader::par_call_request
par_call_request(L, name, order, eager) ==
    ParCollect(L, NotSuperseded(L), order, name, eager)

(***************************************************************************)
(* Function registries of plugins, and calls of a plugin into its          *)
(* dependencies through the Api it was handed at load.                     *)
(***************************************************************************)
\* impl PartialEq for dyn Function
FunctionEq(f, g) == f.name = g.name /\ f.inputs = g.inputs /\ f.output = g.output

\* Plugin::register_function
register_function(L, index, function) ==
    IF \E k \in 1..Len(L.plugins[index].registry) :
           FunctionEq(L.plugins[index].registry[k], function)
      THEN [L |-> L, res |-> "AlreadyExists"]
    ELSE [L |-> [L EXCEPT !.plugins[index].registry = Append(@, function)],
          res |-> "Ok"]

\* the registry positions whose Function has the name
Registered(plugin, name) ==
    {k \in 1..Len(plugin.registry) : plugin.registry[k].name = name}

\* Function::call on entry k of the plugin's registry
CallRegistered(L, plugin, k) ==
    [L EXCEPT !.log = Append(@, [hook |-> "function", path |-> plugin.path,
                                  format |-> plugin.bundle.format,
                                  is_load |-> plugin.is_load, ok |-> TRUE,
                                  function |-> k])]

\* Plugin::call_function
call_function(L, plugin, name) ==
    IF Registered(plugin, name) = {}
      THEN [L |-> L, res |-> "NotFound", found |-> <<>>]
    ELSE [L |-> CallRegistered(L, plugin, FirstIn(Registered(plugin, name))),
          res |-> "Ok",
          found |-> <<Output(plugin, FirstIn(Registered(plugin, name)))>>]

\* bundles.iter().find(|depend| *depend == (id, version)): its position, or 0
FindBundle(bundles, id, version) ==
    LET S == {k \in 1..Len(bundles) : bundles[k].id = id /\ bundles[k].version = version}
    IN IF S = {} THEN 0 ELSE FirstIn(S)

\* get_plugin_by_bundle(depend) and call_function on the plugin; absent is
\* the result when there is no such plugin
CallDepend(L, depend, name, absent) ==
    IF PluginIndex(L, depend) = 0
      THEN [L |-> L, res |-> absent, found |-> <<>>]
    ELSE call_function(L, L.plugins[PluginIndex(L, depend)], name)

\* call_function_depend looking the plugin up without consulting the list
call_function_depend_unlisted(L, api, id, version, name) ==
    CallDepend(L, [id |-> id, version |-> version], name, "DependNotFound")

\* Api::call_function_depend
call_function_depend(L, api, id, version, name) ==
    IF FindBundle(api.depends, id, version) = 0
      THEN [L |-> L, res |-> "DependNotFound", found |-> <<>>]
    ELSE CallDepend(L, api.depends[FindBundle(api.depends, id, version)], name,
                    "DependNotFound")

\* Api::call_function_optional_depend
call_function_optional_depend(L, api, id, version, name) ==
    IF FindBundle(api.optional_depends, id, version) = 0
      THEN [L |-> L, res |-> "None", found |-> <<>>]
    ELSE CallDepend(L, api.optional_depends[FindBundle(api.optional_depends, id, version)],
                    name, "None")

(***************************************************************************)
(* register_plugin on any path of the disk.  An entry of the disk has a    *)
(* leaf name and is a directory or not; kind says what the entry is.       *)
(***************************************************************************)
\* the characters of the ids and formats of the Catalog
Chars ==
    [ a |-> <<"a">>, b |-> <<"b">>, c |-> <<"c">>, d |-> <<"d">>, e |-> <<"e">>,
      f |-> <<"f">>, g |-> <<"g">>, h |-> <<"h">>, x |-> <<"x">>, y |-> <<"y">>,
      vpl |-> <<"v", "p", "l">>, fpl |-> <<"f", "p", "l">> ]

\* the Bundle that from_filename returns for directory k of the Catalog
DiskBundle(k) ==
    Bundle(Chars[Catalog[k].bundle.id], Version(Catalog[k].bundle.version, 0, 0, <<>>),
           Chars[Catalog[k].bundle.format])

\* the directory of the Catalog with that Bundle in its name, 0 when none
PathOf(bundle) ==
    LET S == {k \in Paths : DiskBundle(k) = bundle}
    IN IF S = {} THEN 0 ELSE FirstIn(S)

\* Path::extension is Some: the leaf name has a `.` that is not its first
\* character
HasExtension(name) == rfind(name, <<".">>) > 1

\* register_plugin once the leaf name is parsed
RegisterParsed(r, path) ==
    [L |-> r.L, res |-> r.res, path |-> path,
     format |-> IF r.res = "UnknownManagerFormat" THEN Catalog[path].bundle.format
                ELSE ""]

\* register_plugin without the `!path.is_dir()` test
register_plugin_at_any_file(L, entry) ==
    IF ~HasExtension(entry.name)
      THEN [L |-> L, res |-> "UnknownManagerFormat", path |-> 0, format |-> ""]
    ELSE IF from_filename(entry.name).res # "Ok"
      THEN [L |-> L, res |-> "BundleFrom", path |-> 0, format |-> ""]
    ELSE RegisterParsed(register_plugin(L, PathOf(from_filename(entry.name).bundle)),
                        PathOf(from_filename(entry.name).bundle))

\* private_loader::register_plugin
register_plugin_at(L, entry) ==
    IF ~entry.is_dir
      THEN [L |-> L, res |-> "NotFound", path |-> 0, format |-> ""]
    ELSE IF ~HasExtension(entry.name)
      THEN [L |-> L, res |-> "UnknownManagerFormat", path |-> 0, format |-> ""]
    ELSE IF from_filename(entry.name).res # "Ok"
      THEN [L |-> L, res |-> "BundleFrom", path |-> 0, format |-> ""]
    ELSE RegisterParsed(register_plugin(L, PathOf(from_filename(entry.name).bundle)),
                        PathOf(from_filename(entry.name).bundle))

(***************************************************************************)
(* The public operations of Loader and LoaderContext, one action each.     *)
(***************************************************************************)
\* the engine at the start of an operation: the hook log starts empty
Start == [Loader EXCEPT !.log = <<>>]

\* every load hook of one operation offers the same Functions
HookFunctions(fs) == [k \in Paths |-> fs]

TablesBounded(L) ==
    \A i \in 1..Len(L.plugins) : Len(L.plugins[i].requests) <= MaxPluginRequests

\* the operation returned r: the engine and the result are recorded
Return(r, op, path, format) ==
    /\ TablesBounded(r.L)
    /\ Commit(r.L, [Op(op, path, format, r.res)
                      EXCEPT !.found = IF "found" \in DOMAIN r THEN r.found
                                       ELSE IF "bundles" \in DOMAIN r THEN r.bundles
                                       ELSE <<>>,
                             !.not_found = IF "not_found" \in DOMAIN r THEN r.not_found
                                           ELSE <<>>])

\* Loader::register_manager
Loader_register_manager(format) ==
    /\ ~Aborted
    /\ Return(register_manager(Start, format), "register_manager", 0, format)

\* register_managers after the first register_manager returned r
RegisterManagersNext(r, second) ==
    IF r.res # "Ok" THEN r ELSE register_manager(r.L, second)

\* Loader::register_managers: try_for_each over the batch
Loader_register_managers(first, second) ==
    /\ ~Aborted
    /\ Return(RegisterManagersNext(register_manager(Start, first), second),
              "register_managers", 0, "")

\* Loader::unregister_manager
Loader_unregister_manager(format) ==
    /\ ~Aborted
    /\ IF get_manager_mut(Start, format) = 0
         THEN Commit(Start, Op("unregister_manager", 0, format, "NotFound"))
       ELSE Return(unregister_manager(Start, get_manager_mut(Start, format)),
                   "unregister_manager", 0, format)

\* Loader::register_plugin
Loader_register_plugin(path) ==
    /\ ~Aborted
    /\ Return(register_plugin(Start, path), "register_plugin", path, "")

\* Loader::unregister_plugin / unregister_plugin_by_bundle
Loader_unregister_plugin(path) ==
    /\ ~Aborted
    /\ IF PluginIndex(Start, Catalog[path].bundle) = 0
         THEN Commit(Start, Op("unregister_plugin", path, "", "NotFound"))
       ELSE Return(unregister_plugin(Start, PluginIndex(Start, Catalog[path].bundle)),
                   "unregister_plugin", path, "")

\* Loader::load_plugin / load_plugin_by_bundle
Loader_load_plugin(path, fs) ==
    /\ ~Aborted
    /\ IF PluginIndex(Start, Catalog[path].bundle) = 0
         THEN Commit(Start, Op("load_plugin", path, "", "NotFound"))
       ELSE Return(load_plugin(Start, PluginIndex(Start, Catalog[path].bundle), {},
                               HookFunctions(fs)),
                   "load_plugin", path, "")

\* Loader::unload_plugin / unload_plugin_by_bundle
Loader_unload_plugin(path) ==
    /\ ~Aborted
    /\ IF PluginIndex(Start, Catalog[path].bundle) = 0
         THEN Commit(Start, Op("unload_plugin", path, "", "NotFound"))
       ELSE Return(unload_plugin(Start, PluginIndex(Start, Catalog[path].bundle)),
                   "unload_plugin", path, "")

\* Loader::load_plugins
Loader_load_plugins(paths, fs) ==
    /\ ~Aborted
    /\ Return(load_plugins(Start, paths, HookFunctions(fs)), "load_plugins", 0, "")

\* Loader::load_only_used_plugins
Loader_load_only_used_plugins(paths, fs) ==
    /\ ~Aborted
    /\ Return(load_only_used_plugins(Start, paths, HookFunctions(fs)),
              "load_only_used_plugins", 0, "")

\* Loader::stop
Loader_stop ==
    /\ ~Aborted
    /\ Return(stop(Start), "stop", 0, "")

\* LoaderContext::register_request
LoaderContext_register_request(request) ==
    /\ ~Aborted
    /\ Len(requests) < MaxRequests
    /\ Commit([Start EXCEPT !.requests = Append(@, request)],
              Op("register_request", 0, "", "Ok"))

\* the operation record of a request call
CallOp(op, name, r) ==
    [op |-> op, path |-> 0, format |-> "", res |-> r.res, found |-> r.found,
     not_found |-> <<>>, name |-> name]

\* Loader::call_request
Loader_call_request(name) ==
    /\ ~Aborted
    /\ Commit(call_request(Start, name).L,
              CallOp("call_request", name, call_request(Start, name)))

\* the orders in which n workers may run
WorkerOrders(n) == {q \in [1..n -> 1..n] : \A i, j \in 1..n : i # j => q[i] # q[j]}

\* Loader::par_call_request
Loader_par_call_request(name, order, eager) ==
    /\ ~Aborted
    /\ Commit(par_call_request(Start, name, order, eager).L,
              CallOp("par_call_request", name,
                     par_call_request(Start, name, order, eager)))

\* get_plugin_mut_by_bundle and Plugin::register_function
Plugin_register_function(path, function) ==
    /\ ~Aborted
    /\ PluginIndex(Start, Catalog[path].bundle) # 0
    /\ Len(Start.plugins[PluginIndex(Start, Catalog[path].bundle)].registry) < MaxRegistry
    /\ Commit(register_function(Start, PluginIndex(Start, Catalog[path].bundle),
                                function).L,
              [op |-> "register_function", path |-> path, format |-> "",
               res |-> register_function(Start, PluginIndex(Start, Catalog[path].bundle),
                                         function).res,
               found |-> <<>>, not_found |-> <<>>, function |-> function])

\* the operation record of a call through the Api of the plugin at path
ApiOp(op, path, id, version, name, r) ==
    [op |-> op, path |-> path, format |-> "", res |-> r.res, found |-> r.found,
     not_found |-> <<>>, id |-> id, version |-> version, name |-> name]

\* the Api that the manager holds for the plugin of the directory
ApiOf(L, path) == L.plugins[PluginIndex(L, Catalog[path].bundle)].api

\* Api::call_function_depend, called by the plugin of the directory
Api_call_function_depend(path, id, version, name) ==
    /\ ~Aborted
    /\ PluginIndex(Start, Catalog[path].bundle) # 0
    /\ ApiOf(Start, path).held
    /\ Commit(call_function_depend(Start, ApiOf(Start, path), id, version, name).L,
              ApiOp("call_function_depend", path, id, version, name,
                    call_function_depend(Start, ApiOf(Start, path), id, version, name)))

\* Api::call_function_optional_depend, called by the plugin of the directory
Api_call_function_optional_depend(path, id, version, name) ==
    /\ ~Aborted
    /\ PluginIndex(Start, Catalog[path].bundle) # 0
    /\ ApiOf(Start, path).held
    /\ Commit(call_function_optional_depend(Start, ApiOf(Start, path), id, version,
                                            name).L,
              ApiOp("call_function_optional_depend", path, id, version, name,
                    call_function_optional_depend(Start, ApiOf(Start, path), id,
                                                  version, name)))

\* Loader::register_plugin with a path of the disk
Loader_register_plugin_at(entry) ==
    /\ ~Aborted
    /\ Commit(register_plugin_at(Start, entry).L,
              [op |-> "register_plugin",
               path |-> register_plugin_at(Start, entry).path,
               format |-> register_plugin_at(Start, entry).format,
               res |-> register_plugin_at(Start, entry).res,
               found |-> <<>>, not_found |-> <<>>, entry |-> entry])

(***************************************************************************)
(* Parallel registration.  par_register_managers and par_register_plugins  *)
(* hand `Ptr::new(self).as_mut()` to every worker of the parallel          *)
(* iterator, so the workers run private_loader::register_* on the same     *)
(* engine without synchronisation.  A worker takes three steps: the        *)
(* duplicate test with the hook, the read of the length by Vec::push, and  *)
(* the write of the element with the new length.  While the operation runs *)
(* lastOp holds one record per worker.                                     *)
(***************************************************************************)
Worker(item) == [item |-> item, pc |-> "check", len |-> 0, res |-> "Ok"]

ParOp(op, items, start) ==
    [op |-> op, path |-> 0, format |-> "", res |-> "Running", found |-> <<>>,
     not_found |-> <<>>, workers |-> [w \in 1..Len(items) |-> Worker(items[w])],
     start |-> start]

\* the operations whose workers run private_loader::register_plugin
RegistersPlugins(op) ==
    op \in {"par_register_plugins", "par_load_only_used_plugins", "par_load_plugins"}

Running == lastOp.res = "Running"

\* private_loader::register_plugin up to the push of the record
register_plugin_checked(L, path) ==
    IF PluginIndex(L, Catalog[path].bundle) # 0
      THEN [L |-> L, res |-> "AlreadyExistsIDAndVersion"]
    ELSE IF get_manager_mut(L, Catalog[path].bundle.format) = 0
      THEN [L |-> L, res |-> "UnknownManagerFormat"]
    ELSE [L |-> CallHook(L, "register_plugin", path, FALSE, Catalog[path].bundle.format),
          res |-> IF HookOk(L, "register_plugin", path) THEN "Ok" ELSE "ByManager"]

\* private_loader::register_manager up to the push of the manager
register_manager_checked(L, format) ==
    IF \E i \in 1..Len(L.managers) : L.managers[i] = format
      THEN [L |-> L, res |-> "AlreadyOccupiedFormat"]
    ELSE [L |-> CallManagerHook(L, "register_manager", format),
          res |-> IF HookOk(L, "register_manager", format) THEN "Ok" ELSE "ByManager"]

WorkerChecked(L, op, item) ==
    IF RegistersPlugins(op) THEN register_plugin_checked(L, item)
    ELSE register_manager_checked(L, item)

\* Vec::push with the length read earlier: the element goes behind that length
\* and the length becomes one more
PushAt(L, op, item, len) ==
    IF RegistersPlugins(op)
      THEN [L EXCEPT !.plugins =
                Append(SubSeq(@, 1, len),
                       Plugin(get_manager_mut(L, Catalog[item].bundle.format), item))]
    ELSE [L EXCEPT !.managers = Append(SubSeq(@, 1, len), item),
                   !.slots[len + 1] = item]

VecLen(L, op) == IF RegistersPlugins(op) THEN Len(L.plugins) ELSE Len(L.managers)

\* Loader::par_register_plugins: the workers are handed the engine
Loader_par_register_plugins(paths) ==
    /\ ~Aborted /\ ~Running
    /\ Commit(Start, ParOp("par_register_plugins", paths, <<>>))

\* Loader::par_load_only_used_plugins: it starts with par_register_plugins;
\* the engine at the call is kept for the comparison with load_only_used_plugins
Loader_par_load_only_used_plugins(paths) ==
    /\ ~Aborted /\ ~Running
    /\ Commit(Start, ParOp("par_load_only_used_plugins", paths, <<Start>>))

\* Loader::par_register_managers: the workers are handed the engine
Loader_par_register_managers(formats) ==
    /\ ~Aborted /\ ~Running
    /\ Len(managers) + Len(formats) <= Cardinality(ManagerSlots)
    /\ Commit(Start, ParOp("par_register_managers", formats, <<>>))

\* a worker runs the duplicate test, the manager lookup and the hook
Worker_check(w) ==
    /\ Running
    /\ lastOp.workers[w].pc = "check"
    /\ Commit(WorkerChecked(Loader, lastOp.op, lastOp.workers[w].item).L,
              [lastOp EXCEPT
                 !.workers[w].res = WorkerChecked(Loader, lastOp.op, lastOp.workers[w].item).res,
                 !.workers[w].pc =
                     IF WorkerChecked(Loader, lastOp.op, lastOp.workers[w].item).res = "Ok"
                       THEN "push" ELSE "done"])

\* Vec::push reads the length
Worker_push(w) ==
    /\ Running
    /\ lastOp.workers[w].pc = "push"
    /\ Commit(Loader, [lastOp EXCEPT !.workers[w].pc = "write",
                                     !.workers[w].len = VecLen(Loader, lastOp.op)])

\* Vec::push writes the element and the length; when another worker has pushed
\* since the length was read, the write goes over that element, or the
\* process dies on the buffer the other worker has replaced
Worker_write(w) ==
    /\ Running
    /\ lastOp.workers[w].pc = "write"
    /\ \/ Commit(PushAt(Loader, lastOp.op, lastOp.workers[w].item, lastOp.workers[w].len),
                  [lastOp EXCEPT !.workers[w].pc = "done"])
       \/ /\ VecLen(Loader, lastOp.op) # lastOp.workers[w].len
          /\ Commit(Loader, [lastOp EXCEPT !.res = "Panic"])

\* try_for_each / collect over Results: once a worker has failed, an item that
\* has not been started may be left out
Worker_skip(w) ==
    /\ Running
    /\ \/ lastOp.workers[w].pc = "check"
       \/ /\ lastOp.workers[w].pc = "load"
          /\ Len(lastOp.workers[w].stack) = 1
          /\ lastOp.workers[w].stack[1].pc = "test"
    /\ \E v \in 1..Len(lastOp.workers) :
          lastOp.workers[v].pc = "done" /\ lastOp.workers[v].res # "Ok"
    /\ Commit(Loader, [lastOp EXCEPT !.workers[w].pc = "done",
                                     !.workers[w].res = "Skipped"])

\* par_load_only_used_plugins after the load pass returned l: the shifted
\* removals; the list of bundles is returned as par_register_plugins gave it
ParOnlyUsedLoaded(l, unused, bundles) ==
    IF l.res # "Ok" THEN [L |-> l.L, res |-> l.res, bundles |-> <<>>]
    ELSE [L |-> UnregisterShifted(l.L, unused, <<>>, TRUE).L,
          res |-> UnregisterShifted(l.L, unused, <<>>, TRUE).res,
          bundles |-> bundles]

\* par_load_only_used_plugins once par_register_plugins has returned Ok
ParOnlyUsedRegistered(L, roots, bundles, hf) ==
    ParOnlyUsedLoaded(
        LoadEach(L, FilterSeq(roots, {i \in Range(roots) : IsHighestVersion(L, i)}), hf),
        FilterSeq(roots, {i \in Range(roots) : ~IsHighestVersion(L, i)}),
        bundles)

\* what the operation does once its parallel iterator has returned Ok
Joined(L, op, bundles) ==
    IF op = "par_load_only_used_plugins"
      THEN ParOnlyUsedRegistered(L, NotDependencies(L), bundles, HookFunctions(<<>>))
    ELSE [L |-> L, res |-> "Ok",
          bundles |-> IF op = "par_register_managers" THEN <<>> ELSE bundles]

\* the bundles collected from the workers, in the order of the items
Collected(workers) == [w \in 1..Len(workers) |-> Catalog[workers[w].item].bundle]

\* the workers of the running operation are those of its par_register_plugins
Registering == lastOp.op = "par_load_plugins" /\ lastOp.start = <<>>

\* the bundles that the operation has collected from par_register_plugins
JoinBundles ==
    IF lastOp.op = "par_load_plugins" THEN lastOp.found
    ELSE IF RegistersPlugins(lastOp.op) THEN Collected(lastOp.workers)
    ELSE <<>>

\* the parallel iterator is drained: the operation returns one of the errors,
\* or goes on with the bundles of the items
Par_join ==
    /\ Running
    /\ \A w \in 1..Len(lastOp.workers) : lastOp.workers[w].pc = "done"
    /\ \/ /\ \A w \in 1..Len(lastOp.workers) : lastOp.workers[w].res = "Ok"
          /\ ~Registering
          /\ Commit(Joined(Loader, lastOp.op, JoinBundles).L,
                    [lastOp EXCEPT
                       !.res = Joined(Loader, lastOp.op, JoinBundles).res,
                       !.found = Joined(Loader, lastOp.op, JoinBundles).bundles])
       \/ \E w \in 1..Len(lastOp.workers) :
             /\ lastOp.workers[w].res \notin {"Ok", "Skipped"}
             /\ Commit(Loader, [lastOp EXCEPT !.res = lastOp.workers[w].res])

(***************************************************************************)
(* par_load_plugins.  After par_register_plugins the plugins that are      *)
(* nobody's dependency are handed to a second parallel iterator whose      *)
(* workers run private_loader::load_plugin on the shared engine.  A worker *)
(* keeps the frames of its recursion; a frame tests is_load, goes through  *)
(* the Depends, calls the load hook, and sets is_load when the hook has    *)
(* returned.                                                               *)
(***************************************************************************)
Frame(index) == [index |-> index, pc |-> "test", k |-> 1, found |-> <<>>, missing |-> FALSE]

LoadWorker(index) ==
    [item |-> index, pc |-> "load", len |-> 0, res |-> "Ok", stack |-> <<Frame(index)>>]

\* the worker returns from its top frame
Popped(wk) ==
    IF Len(wk.stack) = 1 THEN [wk EXCEPT !.pc = "done", !.stack = <<>>]
    ELSE [wk EXCEPT !.stack = SubSeq(@, 1, Len(@) - 1)]

\* the error goes up through the `?` of every frame
Failed(wk, res) ==
    [wk EXCEPT !.pc = "done", !.stack = <<>>,
               !.res = IF Len(wk.stack) > 1 /\ res # "Overflow" THEN "LoadDependency" ELSE res]

\* forced_load_plugin after the hook has returned Ok, and check_requests
Flagged(L, index, found) ==
    [L EXCEPT !.plugins[index].requests =
                  HookRegisterRequests(L.requests, @, <<>>),
              !.plugins[index].api = Api(SplitDepends(found, TRUE), SplitDepends(found, FALSE)),
              !.plugins[index].is_load = TRUE]

\* one step of private_loader::load_plugin in the top frame of a worker
LoadStep(L, wk, top, n) ==
    CASE top.pc = "test" ->
           IF L.plugins[top.index].is_load THEN [L |-> L, wk |-> Popped(wk)]
           ELSE IF \E m \in 1..(n - 1) : wk.stack[m].index = top.index
             THEN [L |-> L, wk |-> Failed(wk, "Overflow")]
           ELSE [L |-> L, wk |-> [wk EXCEPT !.stack[n].pc = "deps"]]
      [] top.pc = "deps" /\ top.k > Len(DependsIter(L.plugins[top.index])) ->
           IF top.missing THEN [L |-> L, wk |-> Failed(wk, "NotFoundDependencies")]
           ELSE [L |-> L, wk |-> [wk EXCEPT !.stack[n].pc = "hook"]]
      [] top.pc = "deps" /\ top.k <= Len(DependsIter(L.plugins[top.index])) ->
           IF FindDepend(L, DependsIter(L.plugins[top.index])[top.k].depend) # 0
             THEN [L |-> L,
                   wk |-> [wk EXCEPT
                     !.stack = Append(
                        [@ EXCEPT ![n].k = top.k + 1,
                                  ![n].found = Append(top.found,
                                     [bundle |-> L.plugins[FindDepend(L,
                                          DependsIter(L.plugins[top.index])[top.k].depend)].bundle,
                                      is_depend |->
                                          DependsIter(L.plugins[top.index])[top.k].is_depend])],
                        Frame(FindDepend(L, DependsIter(L.plugins[top.index])[top.k].depend)))]]
           ELSE [L |-> L,
                 wk |-> [wk EXCEPT !.stack[n].k = top.k + 1,
                                   !.stack[n].missing =
                                       \/ top.missing
                                       \/ DependsIter(L.plugins[top.index])[top.k].is_depend]]
      [] top.pc = "hook" ->
           [L |-> CallHook(L, "load_plugin", L.plugins[top.index].path,
                           L.plugins[top.index].is_load, ManagerOf(L, L.plugins[top.index])),
            wk |-> IF HookOk(L, "load_plugin", L.plugins[top.index].path)
                     THEN [wk EXCEPT !.stack[n].pc = "flag"]
                   ELSE Failed(wk, "ByManager")]
      [] top.pc = "flag" ->
           IF check_requests(Flagged(L, top.index, top.found), top.index) # <<>>
             THEN [L |-> [Flagged(L, top.index, top.found)
                            EXCEPT !.plugins[top.index].is_load = FALSE],
                   wk |-> Failed(wk, "RequestsNotFound")]
           ELSE [L |-> Flagged(L, top.index, top.found), wk |-> Popped(wk)]

\* Loader::par_load_plugins: it starts with par_register_plugins
Loader_par_load_plugins(paths) ==
    /\ ~Aborted /\ ~Running
    /\ Commit(Start, ParOp("par_load_plugins", paths, <<>>))

\* par_register_plugins has returned Ok: the plugins that are nobody's
\* dependency are collected and handed to the workers of the load pass
Par_load_roots ==
    /\ Running
    /\ Registering
    /\ \A w \in 1..Len(lastOp.workers) :
          lastOp.workers[w].pc = "done" /\ lastOp.workers[w].res = "Ok"
    /\ Commit(Loader,
              [lastOp EXCEPT !.found = Collected(lastOp.workers),
                             !.start = <<"load">>,
                             !.workers = [w \in 1..Len(NotDependencies(Loader)) |->
                                             LoadWorker(NotDependencies(Loader)[w])]])

\* a worker of the load pass takes a step of load_plugin
Worker_load(w) ==
    /\ Running
    /\ lastOp.workers[w].pc = "load"
    /\ Commit(LoadStep(Loader, lastOp.workers[w],
                       lastOp.workers[w].stack[Len(lastOp.workers[w].stack)],
                       Len(lastOp.workers[w].stack)).L,
              [lastOp EXCEPT
                 !.workers[w] = LoadStep(Loader, lastOp.workers[w],
                                         lastOp.workers[w].stack[Len(lastOp.workers[w].stack)],
                                         Len(lastOp.workers[w].stack)).wk])

(***************************************************************************)
(* Specifications.                                                         *)
(***************************************************************************)
\* longest batch of paths handed to load_plugins / load_only_used_plugins
MaxBatch == 2

\* the batches: sequences of distinct paths, at most n long
PathSeqs(S, n) ==
    UNION {{q \in [1..m -> S] : \A i, j \in 1..m : i # j => q[i] # q[j]} : m \in 0..n}

Environment(avail, formats) ==
    [avail |-> avail, formats |-> formats, failing |-> {}, reqs |-> {}, fns |-> {<<>>}]

\* plugin sets: two versions and a chain; two formats, a duplicate (id, version)
\* and a plugin whose own version lies in its Depend's range; a dependency
\* cycle next to an optional Depend; two versions under one required Depend;
\* one plugin under two Depends of different ranges; a plugin of one manager
\* that depends on a plugin of another manager
LifecycleEnvironments ==
    { Environment({1, 2, 3, 4}, {"vpl"}),
      Environment({1, 5, 8}, {"vpl", "fpl"}),
      Environment({1, 6, 7, 9}, {"vpl"}),
      Environment({1, 2, 10}, {"vpl"}),
      Environment({1, 3, 11}, {"vpl"}),
      Environment({1, 3, 12}, {"vpl", "fpl"}) }

Init == NewLoader /\ env \in LifecycleEnvironments

Next ==
    \/ \E format \in env.formats : Loader_register_manager(format)
    \/ \E first, second \in env.formats : Loader_register_managers(first, second)
    \/ \E format \in env.formats : Loader_unregister_manager(format)
    \/ \E path \in env.avail : Loader_register_plugin(path)
    \/ \E path \in env.avail : Loader_unregister_plugin(path)
    \/ \E path \in env.avail, fs \in env.fns : Loader_load_plugin(path, fs)
    \/ \E path \in env.avail : Loader_unload_plugin(path)
    \/ Loader_stop

Spec == Init /\ [][Next]_vars

(***************************************************************************)
(* Managers whose hooks fail: one failing hook per environment, next to a  *)
(* plugin and its dependency.                                              *)
(***************************************************************************)
FailingHooks ==
    { <<"unload_plugin", 3>>, <<"unload_plugin", 1>>,
      <<"unregister_plugin", 1>>, <<"unregister_plugin", 3>>,
      <<"unregister_manager", "vpl">> }

FailingEnvironments ==
    { [avail |-> {1, 3}, formats |-> {"vpl", "fpl"}, failing |-> {hook},
       reqs |-> {}, fns |-> {<<>>}] : hook \in FailingHooks }

InitFail == NewLoader /\ env \in FailingEnvironments

SpecFail == InitFail /\ [][Next]_vars

(***************************************************************************)
(* The batch operations next to the single ones.                           *)
(***************************************************************************)
\* a superseded version whose newer version is another plugin's best match;
\* one (id, version) under two formats
BatchEnvironments ==
    { Environment({1, 2, 5}, {"vpl", "fpl"}),
      Environment({1, 8}, {"vpl", "fpl"}) }

InitBatch == NewLoader /\ env \in BatchEnvironments

NextBatch ==
    \/ \E format \in env.formats : Loader_register_manager(format)
    \/ \E first, second \in env.formats : Loader_register_managers(first, second)
    \/ \E format \in env.formats : Loader_unregister_manager(format)
    \/ \E path \in env.avail : Loader_register_plugin(path)
    \/ \E path \in env.avail : Loader_unregister_plugin(path)
    \/ \E path \in env.avail, fs \in env.fns : Loader_load_plugin(path, fs)
    \/ \E path \in env.avail : Loader_unload_plugin(path)
    \/ Loader_stop
    \/ \E paths \in PathSeqs(env.avail, MaxBatch), fs \in env.fns :
          Loader_load_plugins(paths, fs)
    \/ \E paths \in PathSeqs(env.avail, MaxBatch), fs \in env.fns :
          Loader_load_only_used_plugins(paths, fs)

SpecBatch == InitBatch /\ [][NextBatch]_vars

\* plugin sets for load_only_used_plugins: two versions under a Depend of
\* another format; a lower version that an optional Depend admits next to a
\* higher version the Depend does not admit
OnlyUsedEnvironments ==
    { Environment({1, 2, 5}, {"vpl", "fpl"}),
      Environment({1, 9, 13}, {"vpl"}) }

InitOnlyUsed == NewLoader /\ env \in OnlyUsedEnvironments

NextOnlyUsed ==
    \/ \E format \in env.formats : Loader_register_manager(format)
    \/ \E path \in env.avail : Loader_register_plugin(path)
    \/ \E path \in env.avail : Loader_unregister_plugin(path)
    \/ \E paths \in PathSeqs(env.avail, MaxBatch), fs \in env.fns :
          Loader_load_only_used_plugins(paths, fs)

SpecOnlyUsed == InitOnlyUsed /\ [][NextOnlyUsed]_vars

\* parallel registration: two directories of one (id, version) under two
\* formats next to a second version; batches of managers that may repeat a
\* format
ParEnvironments ==
    { Environment({1, 2, 8}, {"vpl", "fpl"}) }

FormatSeqs == UNION {[1..m -> Formats] : m \in 1..2}

InitPar == NewLoader /\ env \in ParEnvironments

NextPar ==
    \/ \E formats \in FormatSeqs : Loader_par_register_managers(formats)
    \/ \E paths \in PathSeqs(env.avail, MaxBatch) : Loader_par_register_plugins(paths)
    \/ \E paths \in PathSeqs(env.avail, MaxBatch) : Loader_par_load_only_used_plugins(paths)
    \/ \E w \in 1..MaxBatch : Running /\ w <= Len(lastOp.workers) /\ Worker_check(w)
    \/ \E w \in 1..MaxBatch : Running /\ w <= Len(lastOp.workers) /\ Worker_push(w)
    \/ \E w \in 1..MaxBatch : Running /\ w <= Len(lastOp.workers) /\ Worker_write(w)
    \/ \E w \in 1..MaxBatch : Running /\ w <= Len(lastOp.workers) /\ Worker_skip(w)
    \/ Par_join

SpecPar == InitPar /\ [][NextPar]_vars

\* parallel loading: two plugins whose Depends resolve to the same plugin
ParLoadEnvironments ==
    { Environment({1, 3, 10}, {"vpl"}) }

\* most workers a parallel iterator of the load pass gets
MaxWorkers == 3

InitParLoad == NewLoader /\ env \in ParLoadEnvironments

NextParLoad ==
    \/ \E format \in env.formats : ~Running /\ Loader_register_manager(format)
    \/ \E path \in env.avail : ~Running /\ Loader_register_plugin(path)
    \/ \E paths \in PathSeqs(env.avail, MaxBatch) : Loader_par_load_plugins(paths)
    \/ \E w \in 1..MaxWorkers : Running /\ w <= Len(lastOp.workers) /\ Worker_check(w)
    \/ \E w \in 1..MaxWorkers : Running /\ w <= Len(lastOp.workers) /\ Worker_push(w)
    \/ \E w \in 1..MaxWorkers : Running /\ w <= Len(lastOp.workers) /\ Worker_write(w)
    \/ \E w \in 1..MaxWorkers : Running /\ w <= Len(lastOp.workers) /\ Worker_skip(w)
    \/ Par_load_roots
    \/ \E w \in 1..MaxWorkers : Running /\ w <= Len(lastOp.workers) /\ Worker_load(w)
    \/ Par_join

SpecParLoad == InitParLoad /\ [][NextParLoad]_vars

(***************************************************************************)
(* The request layer: a host that declares Requests at any time and load   *)
(* hooks that offer Functions.                                             *)
(***************************************************************************)
\* one plugin under every Request and every offer; a plugin and its
\* dependency under one Request
RequestEnvironments ==
    { [avail |-> {1}, formats |-> {"vpl"}, failing |-> {},
       reqs |-> HostRequests, fns |-> HookOffers],
      [avail |-> {1, 3}, formats |-> {"vpl"}, failing |-> {},
       reqs |-> {Request("main", <<>>, None)},
       fns |-> {<<>>, <<Function("main", <<>>, None)>>}] }

InitReq == NewLoader /\ env \in RequestEnvironments

NextReq ==
    \/ \E format \in env.formats : Loader_register_manager(format)
    \/ \E request \in env.reqs : LoaderContext_register_request(request)
    \/ \E path \in env.avail : Loader_register_plugin(path)
    \/ \E path \in env.avail, fs \in env.fns : Loader_load_plugin(path, fs)
    \/ \E path \in env.avail : Loader_unload_plugin(path)

SpecReq == InitReq /\ [][NextReq]_vars

(***************************************************************************)
(* Request calls on two versions of one plugin and a plugin of another id. *)
(***************************************************************************)
CallNames == {"main", "echo"}

CallEnvironments ==
    { [avail |-> {1, 2, 3}, formats |-> {"vpl"}, failing |-> {},
       reqs |-> {Request("main", <<>>, None)},
       fns |-> {<<>>, <<Function("main", <<>>, None)>>}] }

InitCall == NewLoader /\ env \in CallEnvironments

NextCall ==
    \/ \E format \in env.formats : Loader_register_manager(format)
    \/ \E request \in env.reqs : LoaderContext_register_request(request)
    \/ \E path \in env.avail : Loader_register_plugin(path)
    \/ \E path \in env.avail, fs \in env.fns : Loader_load_plugin(path, fs)
    \/ \E name \in CallNames : Loader_call_request(name)
    \/ \E name \in CallNames, eager \in BOOLEAN :
          \E order \in WorkerOrders(Len(NotSuperseded(Loader))) :
              Loader_par_call_request(name, order, eager)

SpecCall == InitCall /\ [][NextCall]_vars

\* request calls after an unload or a failed load: one plugin whose load hook
\* offers main, a host that may declare main and echo
UnloadCallEnvironments ==
    { [avail |-> {1}, formats |-> {"vpl"}, failing |-> {},
       reqs |-> {Request("main", <<>>, None), Request("echo", <<"String">>, "String")},
       fns |-> {<<Function("main", <<>>, None)>>}] }

InitUnloadCall == NewLoader /\ env \in UnloadCallEnvironments

NextUnloadCall ==
    \/ \E format \in env.formats : Loader_register_manager(format)
    \/ \E request \in env.reqs : LoaderContext_register_request(request)
    \/ \E path \in env.avail : Loader_register_plugin(path)
    \/ \E path \in env.avail, fs \in env.fns : Loader_load_plugin(path, fs)
    \/ \E path \in env.avail : Loader_unload_plugin(path)
    \/ \E name \in CallNames : Loader_call_request(name)
    \/ \E name \in CallNames, eager \in BOOLEAN :
          \E order \in WorkerOrders(Len(NotSuperseded(Loader))) :
              Loader_par_call_request(name, order, eager)

SpecUnloadCall == InitUnloadCall /\ [][NextUnloadCall]_vars

(***************************************************************************)
(* Plugins that register Functions and call their dependencies: e-v2 with  *)
(* an optional dependency on a, b-v1 with a required one.                  *)
(***************************************************************************)
ApiVersions == {1, 2}

ApiNames == {"add"}

\* one name with three signatures, and the Functions a plugin registers
Adds ==
    { Function("add", <<"I32", "I32">>, "I32"),
      Function("add", <<"I32", "I32">>, "String"),
      Function("add", <<"String">>, "I32") }

ApiEnvironments ==
    { [avail |-> {2, 9}, formats |-> {"vpl"}, failing |-> {}, reqs |-> {},
       fns |-> {<<>>}, functions |-> Adds],
      [avail |-> {1, 3}, formats |-> {"vpl"}, failing |-> {}, reqs |-> {},
       fns |-> {<<>>}, functions |-> {Function("add", <<"I32", "I32">>, "I32")}] }

InitApi == NewLoader /\ env \in ApiEnvironments

NextApi ==
    \/ \E format \in env.formats : Loader_register_manager(format)
    \/ \E path \in env.avail : Loader_register_plugin(path)
    \/ \E path \in env.avail, fs \in env.fns : Loader_load_plugin(path, fs)
    \/ \E path \in env.avail : Loader_unload_plugin(path)
    \/ \E path \in env.avail, function \in env.functions :
          Plugin_register_function(path, function)
    \/ \E path, target \in env.avail, version \in ApiVersions, name \in ApiNames :
          Api_call_function_depend(path, Catalog[target].bundle.id, version, name)
    \/ \E path, target \in env.avail, version \in ApiVersions, name \in ApiNames :
          Api_call_function_optional_depend(path, Catalog[target].bundle.id, version,
                                            name)

SpecApi == InitApi /\ [][NextApi]_vars

(***************************************************************************)
(* Signatures: a host that declares Requests with concrete and unspecified *)
(* (Let) types, and a manager whose load hook offers one Function.         *)
(***************************************************************************)
SignatureRequests ==
    { Request("echo", <<"String">>, "String"),
      Request("echo", <<"Let">>, "String"),
      Request("echo", <<"String">>, "Let"),
      Request("sum", <<"I32", "String">>, None) }

SignatureOffers ==
    { <<Function("echo", <<"String">>, "String")>>,
      <<Function("echo", <<"Let">>, "String")>>,
      <<Function("echo", <<"I32">>, "String")>>,
      <<Function("echo", <<"String">>, "I32")>>,
      <<Function("echo", <<"I32", "String">>, "String")>>,
      <<Function("sum", <<"String", "I32">>, None)>>,
      <<Function("sum", <<"I32">>, None)>>,
      <<Function("sum", <<"String", "I32">>, "I32")>>,
      <<Function("main", <<>>, None)>> }

SignatureEnvironments ==
    { [avail |-> {1}, formats |-> {"vpl"}, failing |-> {},
       reqs |-> SignatureRequests, fns |-> {fs}] : fs \in SignatureOffers }

InitSignature == NewLoader /\ env \in SignatureEnvironments

NextSignature ==
    \/ \E format \in env.formats : Loader_register_manager(format)
    \/ \E request \in env.reqs : LoaderContext_register_request(request)
    \/ \E path \in env.avail : Loader_register_plugin(path)
    \/ \E path \in env.avail, fs \in env.fns : Loader_load_plugin(path, fs)
    \/ \E path \in env.avail : Loader_unload_plugin(path)

SpecSignature == InitSignature /\ [][NextSignature]_vars

(***************************************************************************)
(* Registration from a disk that holds plugin directories next to a file   *)
(* named like a plugin, directories without extension and directories      *)
(* whose names do not parse.                                                *)
(***************************************************************************)
Entry(name, is_dir, kind) == [name |-> name, is_dir |-> is_dir, kind |-> kind]

Disk ==
    { Entry(fmt(DiskBundle(1)), TRUE, "plugin"),
      Entry(fmt(DiskBundle(5)), TRUE, "plugin"),
      Entry(fmt(DiskBundle(8)), TRUE, "plugin"),
      Entry(fmt(DiskBundle(1)), FALSE, "file"),
      Entry(<<"a">>, TRUE, "no_extension"),
      Entry(<<".", "v", "p", "l">>, TRUE, "no_extension"),
      Entry(<<"a", ".", "v", "p", "l">>, TRUE, "unparsable"),
      Entry(<<"a", "-", "v", "1", ".", "v", "p", "l">>, TRUE, "unparsable"),
      Entry(<<"-", "v", "1", ".", "0", ".", "0", ".", "v", "p", "l">>, TRUE, "unparsable"),
      Entry(<<"a", "-", "v", "1", ".", "0", ".", "0", ".">>, TRUE, "unparsable") }

RegisterEnvironments ==
    { [avail |-> {1, 5, 8}, formats |-> {"vpl", "fpl"}, failing |-> failing,
       reqs |-> {}, fns |-> {<<>>}, disk |-> Disk] :
        failing \in {{}, {<<"register_plugin", 5>>}} }

InitRegister == NewLoader /\ env \in RegisterEnvironments

NextRegister ==
    \/ \E format \in env.formats : Loader_register_manager(format)
    \/ \E entry \in env.disk : Loader_register_plugin_at(entry)
    \/ \E path \in env.avail : Loader_unregister_plugin(path)
    \/ \E path \in env.avail, fs \in env.fns : Loader_load_plugin(path, fs)
    \/ \E path \in env.avail : Loader_unload_plugin(path)

SpecRegister == InitRegister /\ [][NextRegister]_vars

(***************************************************************************)
(* Bundle names: a Bundle is written with Display and the name is parsed.  *)
(***************************************************************************)
\* ids: plain, with a dot, containing "-v", ending with "-v", and shaped
\* like a whole bundle name
BundleIds ==
    { <<"a">>, <<"a", ".", "b">>, <<"a", "-", "v", "a">>, <<"a", "-", "v">>,
      <<"a", "-", "v", "1", ".", "0", ".", "0">> }

\* pre-release parts: none, a letter, a number, two identifiers, and ones
\* that begin with `v` or contain "-v"
Prereleases ==
    { <<>>, <<"a">>, <<"1">>, <<"r", "c", ".", "1">>, <<"v">>, <<"v", "1">>,
      <<"a", "-", "v">>, <<"v", "1", ".", "0", ".", "0">> }

BundleVersions ==
    { Version(major, 0, patch, pre) :
        major \in {1, 10}, patch \in {0, 2}, pre \in Prereleases }

BundleFormats == { <<"f">>, <<"v", "p", "l">> }

BundleEnvironments ==
    { [bundle |-> Bundle(id, version, format)] :
        id \in BundleIds, version \in BundleVersions, format \in BundleFormats }

InitBundle == NewLoader /\ env \in BundleEnvironments

\* Bundle::from_filename applied to the Display form of the Bundle
Bundle_from_filename ==
    /\ lastOp.op = "new"
    /\ lastOp' = [op |-> "from_filename", filename |-> fmt(env.bundle),
                  res |-> from_filename(fmt(env.bundle)).res,
                  parsed |-> from_filename(fmt(env.bundle))]
    /\ UNCHANGED <<managers, slots, plugins, requests, proto, log, before, env>>

NextBundle == Bundle_from_filename

SpecBundle == InitBundle /\ [][NextBundle]_vars

(***************************************************************************)
(* The highest-matching-version rule as the specification states it: the   *)
(* registered records with the Depend's id whose version the range admits, *)
(* and among them those of the greatest version.                           *)
(***************************************************************************)
Admitted(plugs, depend) ==
    {i \in 1..Len(plugs) : DependEqBundle(depend, plugs[i].bundle)}

Resolved(plugs, depend) ==
    {i \in Admitted(plugs, depend) :
        \A j \in Admitted(plugs, depend) :
            plugs[j].bundle.version <= plugs[i].bundle.version}

\* the successful calls of a plugin hook in the log of the last operation
HookCalls(hook, path) ==
    {k \in 1..Len(log) : log[k].hook = hook /\ log[k].path = path /\ log[k].ok}

(***************************************************************************)
(* Dependencies of loaded plugins.                                         *)
(***************************************************************************)
\* C1: every loaded plugin has, for each of its required Depends, a loaded
\* plugin of the Depend's id whose version the range admits and which is the
\* highest-version registered plugin matching the Depend
LoadedDependsAreLoaded ==
    \A i \in 1..Len(plugins) :
        plugins[i].is_load =>
            \A k \in 1..Len(plugins[i].depends) :
                \E j \in Resolved(plugins, plugins[i].depends[k]) : plugins[j].is_load

(***************************************************************************)
(* Uniqueness of plugin records and of manager formats.                    *)
(***************************************************************************)
NoDuplicateIdVersion ==
    \A i, j \in 1..Len(plugins) :
        i # j => ~PluginEqBundle(plugins[i], plugins[j].bundle)

\* a register_plugin step for a path whose (id, version) is registered
DuplicateRegisterRejected ==
    \A path \in Paths :
        ( /\ lastOp'.op = "register_plugin"
          /\ lastOp'.path = path
          /\ \E i \in 1..Len(plugins) : PluginEqBundle(plugins[i], Catalog[path].bundle) )
        => /\ lastOp'.res = "AlreadyExistsIDAndVersion"
           /\ plugins' = plugins
           /\ log' = <<>>

\* C2: no two plugin records share (id, version), and register_plugin of a
\* path whose (id, version) is already registered returns AlreadyExists, calls
\* no manager hook and leaves the plugin list as it was
UniqueIdVersion == []NoDuplicateIdVersion /\ [][DuplicateRegisterRejected]_vars

\* register_plugin rejected a path whose (id, version) is registered under
\* another format
DuplicateRegisterSeen ==
    /\ lastOp.op = "register_plugin"
    /\ lastOp.res = "AlreadyExistsIDAndVersion"
    /\ \E i \in 1..Len(plugins) :
          /\ PluginEqBundle(plugins[i], Catalog[lastOp.path].bundle)
          /\ plugins[i].bundle.format # Catalog[lastOp.path].bundle.format

NoDuplicateFormat ==
    \A i, j \in 1..Len(managers) : i # j => managers[i] # managers[j]

\* a register_manager step for a format that has a manager
OccupiedFormatRejected ==
    \A format \in Formats :
        ( /\ lastOp'.op = "register_manager"
          /\ lastOp'.format = format
          /\ format \in Range(managers) )
        => /\ lastOp'.res = "AlreadyOccupiedFormat"
           /\ managers' = managers
           /\ slots' = slots
           /\ log' = <<>>

\* C3: no two manager slots have the same format, and register_manager with a
\* format that is already registered returns AlreadyOccupiedFormat, calls no
\* register_manager hook and leaves the manager list as it was
UniqueFormat == []NoDuplicateFormat /\ [][OccupiedFormatRejected]_vars

\* register_manager rejected an occupied format while another manager was
\* registered next to it
OccupiedFormatSeen ==
    /\ lastOp.op = "register_manager"
    /\ lastOp.res = "AlreadyOccupiedFormat"
    /\ Len(managers) = 2

(***************************************************************************)
(* Request tables.                                                         *)
(***************************************************************************)
\* the rule of LoadPluginContext::register_request, for one Request
SatisfiesRequest(request, f) == RegisterRequestResult(<<request>>, f) = "Ok"

\* C4: every loaded plugin has, for every Request registered on the engine, a
\* Function named as the Request whose signature satisfies the
\* register_request rule for that Request
LoadedPluginsAnswerRequests ==
    \A i \in 1..Len(plugins) :
        plugins[i].is_load =>
            \A r \in 1..Len(requests) :
                \E k \in 1..Len(plugins[i].requests) :
                    SatisfiesRequest(requests[r], plugins[i].requests[k])

\* the table holds, for every Request of reqs, a Function of its name that
\* satisfies the rule for the first Request of that name
Answers(table, reqs) ==
    \A r \in 1..Len(reqs) :
        \E k \in 1..Len(table) :
            /\ table[k].name = reqs[r].name
            /\ RegisterRequestResult(reqs, table[k]) = "Ok"

\* a step that registers no Request: a plugin that is loaded after it, and was
\* not loaded before it or answered the Requests before it, answers them
LoadAnswersRequests ==
    \A path \in Paths :
        \A i \in 1..Len(plugins') :
            ( /\ plugins'[i].path = path
              /\ plugins'[i].is_load
              /\ requests' = requests
              /\ \A j \in 1..Len(plugins) :
                    (plugins[j].path = path /\ plugins[j].is_load)
                        => Answers(plugins[j].requests, requests) )
            => Answers(plugins'[i].requests, requests')

\* C4 (amended): a plugin that load_plugin loads answers every Request
\* registered before that load, by the rule for the first Request of the name,
\* and keeps doing so while it stays loaded and no Request is registered
LoadedPluginsAnswerEarlierRequests == [][LoadAnswersRequests]_vars

\* load_plugin ran the load hook of a plugin while two Requests were registered
LoadWithRequestsSeen ==
    /\ lastOp.op = "load_plugin"
    /\ lastOp.res = "Ok"
    /\ HookCalls("load_plugin", lastOp.path) # {}
    /\ Len(requests) = 2

\* C5: the request table of every plugin record holds at most one Function
\* per request name
OneFunctionPerRequestName ==
    \A i \in 1..Len(plugins) :
        \A k, m \in 1..Len(plugins[i].requests) :
            k # m => plugins[i].requests[k].name # plugins[i].requests[m].name

(***************************************************************************)
(* The hook protocol.                                                      *)
(***************************************************************************)
\* C6: the successful hook calls for a plugin are one register_plugin, then
\* alternating load_plugin / unload_plugin pairs, then one unregister_plugin
HookProtocolKept == \A path \in Paths : proto[path] # "broken"

\* C7: the unregister_plugin hook is never invoked for a plugin whose
\* is_loaded flag is true
UnregisterHookOnlyWhenUnloaded ==
    \A k \in 1..Len(log) : log[k].hook = "unregister_plugin" => ~log[k].is_load

(***************************************************************************)
(* Resolution and load order.                                              *)
(***************************************************************************)
\* load_plugin went through the Depends of the plugin at lastOp.path
LoadResolved ==
    /\ lastOp.op = "load_plugin"
    /\ \/ lastOp.res = "NotFoundDependencies"
       \/ lastOp.res = "Ok" /\ HookCalls("load_plugin", lastOp.path) # {}

\* C8: load_plugin resolves every Depend to the registered plugin of the
\* Depend's id with the greatest version the range admits, whatever plugins of
\* other ids are registered; a Depend is not found only when no registered
\* plugin of its id is admitted
LoadResolvesHighestAdmitted ==
    LoadResolved =>
        \A k \in 1..Len(AllDepends(Catalog[lastOp.path])) :
            LET depend == AllDepends(Catalog[lastOp.path])[k]
            IN IF Resolved(plugins, depend) = {}
                 THEN ~\E f \in 1..Len(lastOp.found) :
                          DependEqBundle(depend, lastOp.found[f].bundle)
               ELSE \E f \in 1..Len(lastOp.found), j \in Resolved(plugins, depend) :
                        lastOp.found[f].bundle = plugins[j].bundle

\* C9: a load hook runs only after the load hooks of the plugins its Depends
\* resolve to have succeeded and set is_loaded, each hook at most once; for the
\* chain c -> b -> a, loading c loads all three in the order a, b, c
DependenciesLoadFirst ==
    lastOp.op = "load_plugin" =>
        /\ \A k \in 1..Len(log) :
              (log[k].hook = "load_plugin" /\ log[k].ok) =>
                  \A d \in 1..Len(AllDepends(Catalog[log[k].path])) :
                      \A j \in Resolved(plugins, AllDepends(Catalog[log[k].path])[d]) :
                          /\ plugins[j].is_load
                          /\ \A m \in HookCalls("load_plugin", plugins[j].path) : m < k
        /\ \A path \in Paths : Cardinality(HookCalls("load_plugin", path)) <= 1
        /\ (lastOp.path = 4 /\ lastOp.res = "Ok") =>
              /\ \A i \in 1..Len(plugins) : plugins[i].path \in {1, 3, 4} => plugins[i].is_load
              /\ \A a \in HookCalls("load_plugin", 1), b \in HookCalls("load_plugin", 3),
                    c \in HookCalls("load_plugin", 4) : a < b /\ b < c

\* the registered versions a Depend admits besides the highest one
LowerVersions(plugs, depend) == Admitted(plugs, depend) \ Resolved(plugs, depend)

\* C10: when a Depend of the plugin handed to load_plugin admits several
\* registered versions, the load hook of no lower version is invoked
OnlyHighestAdmittedLoaded ==
    lastOp.op = "load_plugin" =>
        \A k \in 1..Len(AllDepends(Catalog[lastOp.path])) :
            \A j \in LowerVersions(plugins, AllDepends(Catalog[lastOp.path])[k]) :
                HookCalls("load_plugin", plugins[j].path) = {}

\* the records met when following Depends from the records of S
RECURSIVE Reached(_, _)
Reached(plugs, S) ==
    LET next == S \cup {j \in 1..Len(plugs) :
                           \E i \in S : \E k \in 1..Len(AllDepends(plugs[i])) :
                               j \in Resolved(plugs, AllDepends(plugs[i])[k])}
    IN IF next = S THEN S ELSE Reached(plugs, next)

\* C10 (amended): the load hook of a lower version is invoked only when that
\* version is the highest one admitted by another Depend met during the call
LowerVersionLoadedOnlyAsBestMatch ==
    lastOp.op = "load_plugin" =>
        \A k \in 1..Len(AllDepends(Catalog[lastOp.path])) :
            \A j \in LowerVersions(plugins, AllDepends(Catalog[lastOp.path])[k]) :
                HookCalls("load_plugin", plugins[j].path) # {} =>
                    \E i \in Reached(plugins, {PluginIndex(Loader, Catalog[lastOp.path].bundle)}) :
                        \E d \in 1..Len(AllDepends(plugins[i])) :
                            j \in Resolved(plugins, AllDepends(plugins[i])[d])

\* load_plugin loaded the highest of two admitted versions and left the lower
\* one unloaded
LowerVersionLeftUnloaded ==
    /\ lastOp.op = "load_plugin"
    /\ lastOp.res = "Ok"
    /\ \E k \in 1..Len(AllDepends(Catalog[lastOp.path])) :
          /\ \E j \in LowerVersions(plugins, AllDepends(Catalog[lastOp.path])[k]) :
                ~plugins[j].is_load
          /\ \E j \in Resolved(plugins, AllDepends(Catalog[lastOp.path])[k]) :
                HookCalls("load_plugin", plugins[j].path) # {}

(***************************************************************************)
(* Results of load_plugin and unload_plugin.                               *)
(***************************************************************************)
\* the required Depends of the directory's metadata that no registered plugin
\* of the Depend's id satisfies, in declaration order
MissingDepends(plugs, path) ==
    FilterSeq(Catalog[path].depends,
              {d \in Range(Catalog[path].depends) : Resolved(plugs, d) = {}})

\* C11: load_plugin of an unloaded plugin returns NotFoundDependencies(L)
\* exactly when the list L of its required Depends that resolve to no registered
\* plugin is non-empty, and then its load hook is not invoked and it stays
\* unloaded; a missing optional Depend never makes the call fail
LoadReportsMissingDepends ==
    ( /\ lastOp.op = "load_plugin"
      /\ lastOp.res \in {"Ok", "NotFoundDependencies"}
      /\ ~(lastOp.res = "Ok" /\ HookCalls("load_plugin", lastOp.path) = {}) )
    => /\ (lastOp.res = "NotFoundDependencies")
              <=> (MissingDepends(plugins, lastOp.path) # <<>>)
       /\ lastOp.res = "NotFoundDependencies" =>
              /\ lastOp.not_found = MissingDepends(plugins, lastOp.path)
              /\ HookCalls("load_plugin", lastOp.path) = {}
              /\ \A i \in 1..Len(plugins) :
                    plugins[i].path = lastOp.path => ~plugins[i].is_load

\* the record the public *_by_bundle operations act on for a directory
Subject(path) == PluginIndex(Loader, Catalog[path].bundle)

\* another loaded record has a Depend that admits the subject while no other
\* loaded record of a greater version is admitted by that Depend
UsedByLoaded(plugs, x) ==
    \E p \in (1..Len(plugs)) \ {x} :
        /\ plugs[p].is_load
        /\ \E k \in 1..Len(AllDepends(plugs[p])) :
              /\ DependEqBundle(AllDepends(plugs[p])[k], plugs[x].bundle)
              /\ ~\E j \in (1..Len(plugs)) \ {x} :
                    /\ plugs[j].is_load
                    /\ DependEqBundle(AllDepends(plugs[p])[k], plugs[j].bundle)
                    /\ plugs[j].bundle.version > plugs[x].bundle.version

UnloadBlocked ==
    \A path \in Paths :
        ( /\ lastOp'.op = "unload_plugin"
          /\ lastOp'.path = path
          /\ Subject(path) # 0
          /\ plugins[Subject(path)].is_load
          /\ UsedByLoaded(plugins, Subject(path)) )
        => /\ lastOp'.res = "CurrentlyUsesDepend"
           /\ log' = <<>>
           /\ plugins' = plugins

\* C12: unload_plugin of a loaded plugin X returns CurrentlyUsesDepend, invokes
\* no unload hook and leaves X loaded whenever another loaded plugin has a
\* Depend matching X and no other loaded plugin of a strictly higher version
\* matches that Depend; a higher version that is only registered does not help
UnloadBlockedWhileUsed == [][UnloadBlocked]_vars

\* every Depend of a loaded record that admits the subject also admits a loaded
\* record of the subject's id with a strictly higher version
SupersededForAll(plugs, x) ==
    \A p \in 1..Len(plugs) :
        plugs[p].is_load =>
            \A k \in 1..Len(AllDepends(plugs[p])) :
                DependEqBundle(AllDepends(plugs[p])[k], plugs[x].bundle) =>
                    \E j \in 1..Len(plugs) :
                        /\ plugs[j].is_load
                        /\ DependEqBundle(AllDepends(plugs[p])[k], plugs[j].bundle)
                        /\ plugs[j].bundle.version > plugs[x].bundle.version

UnloadOfSuperseded ==
    \A path \in Paths :
        ( /\ lastOp'.op = "unload_plugin"
          /\ lastOp'.path = path
          /\ Subject(path) # 0
          /\ plugins[Subject(path)].is_load
          /\ SupersededForAll(plugins, Subject(path)) )
        => /\ lastOp'.res = "Ok"
           /\ Len(log') = 1
           /\ log'[1].hook = "unload_plugin" /\ log'[1].ok
           /\ log'[1].path = plugins[Subject(path)].path
           /\ Len(plugins') = Len(plugins)
           /\ ~plugins'[Subject(path)].is_load

\* C13: unload_plugin of a loaded plugin X invokes the unload hook and clears
\* is_loaded when, for every loaded plugin with a Depend matching X, a strictly
\* higher version of X's id admitted by that Depend is registered and loaded
UnloadSucceedsWhenSuperseded == [][UnloadOfSuperseded]_vars

\* unload_plugin unloaded a plugin while a loaded plugin has a Depend matching
\* it and a higher admitted version is loaded
UnloadOfSupersededSeen ==
    /\ lastOp.op = "unload_plugin"
    /\ lastOp.res = "Ok"
    /\ HookCalls("unload_plugin", lastOp.path) # {}
    /\ \E p, j \in 1..Len(plugins) : \E k \in 1..Len(AllDepends(plugins[p])) :
          /\ plugins[p].is_load
          /\ plugins[j].is_load
          /\ DependEqBundle(AllDepends(plugins[p])[k], Catalog[lastOp.path].bundle)
          /\ DependEqBundle(AllDepends(plugins[p])[k], plugins[j].bundle)
          /\ plugins[j].bundle.version > Catalog[lastOp.path].bundle.version

\* the engine state apart from the hook log and the operation record
EngineUnchanged ==
    /\ plugins' = plugins
    /\ managers' = managers
    /\ slots' = slots
    /\ requests' = requests
    /\ proto' = proto

LoadOfLoaded ==
    \A path \in Paths :
        ( /\ lastOp'.op = "load_plugin"
          /\ lastOp'.path = path
          /\ Subject(path) # 0
          /\ plugins[Subject(path)].is_load )
        => /\ lastOp'.res = "Ok"
           /\ log' = <<>>
           /\ EngineUnchanged

\* C14: load_plugin of a plugin whose is_loaded flag is true returns Ok,
\* invokes no manager hook, loads no dependency and changes no engine state
LoadOfLoadedIsNoOp == [][LoadOfLoaded]_vars

\* load_plugin returned from a loaded plugin one of whose Depends is found
\* among the records and is not loaded
LoadOfLoadedSeen ==
    /\ lastOp.op = "load_plugin"
    /\ lastOp.res = "Ok"
    /\ log = <<>>
    /\ Subject(lastOp.path) # 0
    /\ plugins[Subject(lastOp.path)].is_load
    /\ \E k \in 1..Len(AllDepends(Catalog[lastOp.path])) :
          /\ FindDepend(Loader, AllDepends(Catalog[lastOp.path])[k]) # 0
          /\ ~plugins[FindDepend(Loader, AllDepends(Catalog[lastOp.path])[k])].is_load

UnloadOfUnloaded ==
    \A path \in Paths :
        ( /\ lastOp'.op = "unload_plugin"
          /\ lastOp'.path = path
          /\ Subject(path) # 0
          /\ ~plugins[Subject(path)].is_load )
        => /\ lastOp'.res = "Ok"
           /\ log' = <<>>
           /\ EngineUnchanged

\* C15: unload_plugin of a registered plugin whose is_loaded flag is false
\* returns Ok, invokes no manager hook and changes no engine state, whether or
\* not loaded plugins declare a Depend that matches it
UnloadOfUnloadedIsNoOp == [][UnloadOfUnloaded]_vars

\* unload_plugin returned from an unloaded plugin that is the best match of a
\* Depend of a loaded plugin
UnloadOfUnloadedSeen ==
    /\ lastOp.op = "unload_plugin"
    /\ lastOp.res = "Ok"
    /\ log = <<>>
    /\ Subject(lastOp.path) # 0
    /\ ~plugins[Subject(lastOp.path)].is_load
    /\ \E p \in 1..Len(plugins) :
          UsesDepend(Loader, plugins[p], Catalog[lastOp.path].bundle)

(***************************************************************************)
(* Register followed by unregister.                                        *)
(***************************************************************************)
\* C16: a successful register_plugin(path) directly followed by
\* unregister_plugin_by_bundle of the bundle it returned leaves the plugin list
\* (records, order, is_loaded flags), the manager list and the Requests as they
\* were before the register call
RegisterUndoneByUnregister ==
    (lastOp.op = "unregister_plugin" /\ before # NoSnapshot) =>
        /\ lastOp.path = before.path
        /\ lastOp.res # "NotFound"
        /\ plugins = before.plugins
        /\ managers = before.managers
        /\ requests = before.requests

\* unregister_plugin ran right after the register_plugin of the same directory,
\* next to a loaded plugin and an unloaded one
RegisterUndoneSeen ==
    /\ lastOp.op = "unregister_plugin"
    /\ lastOp.res = "Ok"
    /\ before # NoSnapshot
    /\ HookCalls("unregister_plugin", lastOp.path) # {}
    /\ \E i, j \in 1..Len(plugins) : plugins[i].is_load /\ ~plugins[j].is_load

(***************************************************************************)
(* Teardown.                                                               *)
(***************************************************************************)
\* the positions in a hook log of the calls of one plugin hook for a directory
Calls(hooks, hook, path) ==
    {k \in 1..Len(hooks) : hooks[k].hook = hook /\ hooks[k].path = path}

\* p has a Depend that resolves to q, and q does not depend on p in turn
DependsOn(plugs, p, q) ==
    /\ p # q
    /\ \E k \in 1..Len(AllDepends(plugs[p])) : q \in Resolved(plugs, AllDepends(plugs[p])[k])
    /\ p \notin Reached(plugs, {q})

StopUnloadOrder ==
    lastOp'.op = "stop" =>
        \A p, q \in 1..Len(plugins) :
            (plugins[p].is_load /\ plugins[q].is_load /\ DependsOn(plugins, p, q)) =>
                /\ Calls(log', "unload_plugin", plugins[p].path) # {}
                /\ Calls(log', "unload_plugin", plugins[q].path) # {}
                /\ \A i \in Calls(log', "unload_plugin", plugins[p].path),
                      j \in Calls(log', "unload_plugin", plugins[q].path) : i < j

\* C18: stop invokes the unload hook of a loaded plugin before the unload hook
\* of every loaded plugin one of its Depends resolves to, for every
\* registration order and also when two dependents reference a plugin through
\* Depends of different ranges (chain x -> y -> z: x, y, z)
StopUnloadsDependentsFirst == [][StopUnloadOrder]_vars

\* C19: stop invokes the unregister hooks of the plugins in the order in which
\* it invoked their unload hooks, whatever the registration order, and every
\* unregister_manager hook after all plugin unregister hooks
StopUnregistersInUnloadOrder ==
    lastOp.op = "stop" =>
        /\ \A p, q \in Paths :
              \A i \in Calls(log, "unload_plugin", p), j \in Calls(log, "unload_plugin", q) :
                  \A m \in Calls(log, "unregister_plugin", p),
                     n \in Calls(log, "unregister_plugin", q) :
                      i < j => m < n
        /\ \A i, j \in 1..Len(log) :
              (log[i].hook = "unregister_manager" /\ log[j].hook = "unregister_plugin")
                  => j < i

StopAttemptsAll ==
    (lastOp'.op = "stop" /\ \E k \in 1..Len(log') : ~log'[k].ok) =>
        /\ \A i \in 1..Len(plugins) :
              /\ plugins[i].is_load => Calls(log', "unload_plugin", plugins[i].path) # {}
              /\ Calls(log', "unregister_plugin", plugins[i].path) # {}
        /\ \A m \in 1..Len(managers) :
              \E k \in 1..Len(log') :
                  log'[k].hook = "unregister_manager" /\ log'[k].format = managers[m]
        /\ lastOp'.res \in {"UnregisterPluginFailed", "UnregisterManagerFailed"}

\* C20: when a manager hook fails during stop, stop still attempts the unload
\* and the unregister of every plugin and the unregister of every manager, and
\* returns UnregisterPluginFailed or UnregisterManagerFailed
StopCollectsFailures == [][StopAttemptsAll]_vars

(***************************************************************************)
(* Bundle names.                                                           *)
(***************************************************************************)
\* C17: for every non-empty id, semver version and non-empty format without
\* `.`, ids containing "-v" and pre-release parts beginning with `v` included,
\* from_filename applied to the Display form id-v{version}.{format} returns a
\* Bundle with the same id, version and format
BundleRoundTrip ==
    lastOp.op = "from_filename" =>
        /\ lastOp.res = "Ok"
        /\ lastOp.parsed.bundle = env.bundle

(***************************************************************************)
(* unregister_manager.                                                     *)
(***************************************************************************)
\* a loaded record of another format has a Depend that resolves to a loaded
\* record of the format
UsedAcrossManagers(plugs, format) ==
    \E p, q \in 1..Len(plugs) :
        /\ plugs[p].is_load /\ plugs[p].bundle.format # format
        /\ plugs[q].is_load /\ plugs[q].bundle.format = format
        /\ \E k \in 1..Len(AllDepends(plugs[p])) :
              q \in Resolved(plugs, AllDepends(plugs[p])[k])

UnregisterManagerBlocked ==
    \A format \in Formats :
        ( /\ lastOp'.op = "unregister_manager"
          /\ lastOp'.format = format
          /\ format \in Range(managers)
          /\ UsedAcrossManagers(plugins, format) )
        => /\ lastOp'.res = "UnloadError"
           /\ managers' = managers
           /\ \A i \in 1..Len(plugins) :
                 plugins[i].bundle.format = format =>
                     \E j \in 1..Len(plugins') : plugins'[j].bundle = plugins[i].bundle
           /\ \A k \in 1..Len(log') : log'[k].hook # "unregister_manager"

\* C21: unregister_manager(format) returns UnregisterPlugin(UnloadError(
\* CurrentlyUsesDepend)) when a loaded plugin of another manager has a Depend
\* whose best match is a loaded plugin of this manager; the manager slot and
\* all of its plugin records stay registered and the unregister_manager hook
\* is not invoked
UnregisterManagerRefusedWhileUsed == [][UnregisterManagerBlocked]_vars

\* the records of the other formats, in list order
OtherFormats(plugs, format) ==
    FilterSeq(plugs, {r \in Range(plugs) : r.bundle.format # format})

UnregisterManagerRemoves ==
    \A format \in Formats :
        ( /\ lastOp'.op = "unregister_manager"
          /\ lastOp'.format = format
          /\ lastOp'.res = "Ok" )
        => /\ format \notin Range(managers')
           /\ \A i \in 1..Len(plugins') : plugins'[i].bundle.format # format
           /\ OtherFormats(plugins', format) = OtherFormats(plugins, format)
           /\ Range(managers') = Range(managers) \ {format}

\* C22: after unregister_manager(format) returns Ok the engine has no manager
\* slot of that format and no plugin record of that bundle format, while the
\* records of the other managers are all present with their is_loaded flags
\* and their relative order, and so is every other manager slot
UnregisterManagerFrame == [][UnregisterManagerRemoves]_vars

(***************************************************************************)
(* Request calls.                                                          *)
(***************************************************************************)
\* the records with no record of the same id and a greater version
Highest(plugs) ==
    {i \in 1..Len(plugs) :
        ~\E j \in 1..Len(plugs) : /\ plugs[j].bundle.id = plugs[i].bundle.id
                                  /\ plugs[j].bundle.version > plugs[i].bundle.version}

\* C23: call_request(name), when every non-superseded plugin has a request of
\* that name, returns Ok with exactly one output per record whose version is
\* the highest of its id, in plugin-list order; a superseded plugin gives no
\* output and its Function is not invoked
CallRequestFansOut ==
    ( /\ lastOp.op = "call_request"
      /\ \A i \in Highest(plugins) :
            \E k \in 1..Len(plugins[i].requests) : plugins[i].requests[k].name = lastOp.name )
    => /\ lastOp.res = "Ok"
       /\ Len(lastOp.found) = Cardinality(Highest(plugins))
       /\ \A k \in 1..Len(lastOp.found) :
             /\ \E i \in Highest(plugins) :
                   /\ plugins[i].path = lastOp.found[k].path
                   /\ Cardinality({j \in Highest(plugins) : j < i}) = k - 1
             /\ plugins[PluginIndex(Loader, Catalog[lastOp.found[k].path].bundle)]
                    .requests[lastOp.found[k].function].name = lastOp.name
       /\ \A i \in (1..Len(plugins)) \ Highest(plugins) :
             Calls(log, "request", plugins[i].path) = {}
       /\ \A i \in Highest(plugins) :
             Cardinality(Calls(log, "request", plugins[i].path)) = 1

\* call_request returned two outputs while a superseded plugin with a request
\* of the name was registered
CallRequestFansOutSeen ==
    /\ lastOp.op = "call_request"
    /\ lastOp.res = "Ok"
    /\ Len(lastOp.found) = 2
    /\ \E i \in (1..Len(plugins)) \ Highest(plugins) :
          \E k \in 1..Len(plugins[i].requests) : plugins[i].requests[k].name = lastOp.name

\* C24: par_call_request returns what call_request returns in the same state
\* for the same name: the same Ok / Err outcome and the same outputs at the
\* same positions, whatever the order in which the workers run
ParCallRequestAgrees ==
    lastOp.op = "par_call_request" =>
        /\ lastOp.res = call_request(Loader, lastOp.name).res
        /\ lastOp.found = call_request(Loader, lastOp.name).found

\* par_call_request returned two outputs whose workers ran in the reverse of
\* the plugin-list order
ParCallRequestAgreesSeen ==
    /\ lastOp.op = "par_call_request"
    /\ lastOp.res = "Ok"
    /\ Len(lastOp.found) = 2
    /\ Len(log) >= 2
    /\ log[1].path = lastOp.found[2].path
    /\ log[Len(log)].path = lastOp.found[1].path

(***************************************************************************)
(* Calls through the Api and the registries of plugins.                    *)
(***************************************************************************)
\* the plugin that made the last call through its Api
Caller == plugins[Subject(lastOp.path)]

\* (id, version) of the last call is in the list of Bundles
Listed(bundles) ==
    \E k \in 1..Len(bundles) :
        bundles[k].id = lastOp.id /\ bundles[k].version = lastOp.version

\* C25: call_function_depend(id, version, name) returns DependNotFound and
\* invokes no function when (id, version) is not in the required-dependency
\* list of the Api, even if such a plugin is registered, loaded and exposes
\* name or is an optional dependency; call_function_optional_depend returns
\* None and invokes nothing when (id, version) is not in the optional list
ApiCallsOnlyListedDepends ==
    /\ (lastOp.op = "call_function_depend" /\ ~Listed(Caller.api.depends))
         => lastOp.res = "DependNotFound" /\ log = <<>>
    /\ (lastOp.op = "call_function_optional_depend"
          /\ ~Listed(Caller.api.optional_depends))
         => lastOp.res = "None" /\ log = <<>>

\* call_function_depend returned DependNotFound for a loaded plugin that
\* exposes the name and is an optional dependency of the caller
UnlistedDependCallSeen ==
    /\ lastOp.op = "call_function_depend"
    /\ lastOp.res = "DependNotFound"
    /\ Listed(Caller.api.optional_depends)
    /\ \E i \in 1..Len(plugins) :
          /\ plugins[i].bundle.id = lastOp.id
          /\ plugins[i].bundle.version = lastOp.version
          /\ plugins[i].is_load
          /\ \E k \in 1..Len(plugins[i].registry) : plugins[i].registry[k].name = lastOp.name

\* register_function of a name that the registry already holds is refused
\* and nothing changes
DuplicateNameRefused ==
    ( /\ lastOp'.op = "register_function"
      /\ \E k \in 1..Len(plugins[Subject(lastOp'.path)].registry) :
            plugins[Subject(lastOp'.path)].registry[k].name = lastOp'.function.name )
    => lastOp'.res = "AlreadyExists" /\ plugins' = plugins

\* C26: Plugin.register_function with a Function whose name is already in the
\* plugin's registry returns AlreadyExists and leaves the registry unchanged,
\* whatever the signatures of the two Functions
RegisterFunctionRefusesDuplicateName == [][DuplicateNameRefused]_vars

(***************************************************************************)
(* Signatures of request Functions.                                        *)
(***************************************************************************)
\* the Function that the load hook of the environment offers
Offered == (CHOOSE fs \in env.fns : TRUE)[1]

\* the load hook of the directory was called and returned Ok
HookRan(hooks, path) ==
    \E k \in 1..Len(hooks) :
        hooks[k].hook = "load_plugin" /\ hooks[k].path = path /\ hooks[k].ok

\* what the calls of register_request for the directory returned
RegisterRequestResults(hooks, path) ==
    {hooks[k].res : k \in {j \in 1..Len(hooks) : /\ hooks[j].hook = "register_request"
                                                 /\ hooks[j].path = path}}

\* the engine Requests of the name
RequestsNamed(reqs, name) == {k \in 1..Len(reqs) : reqs[k].name = name}

\* every input type of the Request occurs among the inputs of f, and the
\* outputs are equal
Accepts(request, f) ==
    /\ \A i \in 1..Len(request.inputs) :
          \E j \in 1..Len(f.inputs) : f.inputs[j] = request.inputs[i]
    /\ request.output = f.output

RegisterRequestContract ==
    \A path \in Paths :
        (lastOp'.op = "load_plugin" /\ lastOp'.path = path /\ HookRan(log', path)) =>
            /\ RegisterRequestResults(log', path) # {}
            /\ ( /\ RequestsNamed(requests, Offered.name) # {}
                 /\ \A k \in RequestsNamed(requests, Offered.name) :
                       Accepts(requests[k], Offered) )
               => /\ plugins'[Subject(path)].requests =
                         Append(plugins[Subject(path)].requests, Offered)
                  /\ RegisterRequestResults(log', path) = {"Ok"}
            /\ RequestsNamed(requests, Offered.name) = {}
               => /\ plugins'[Subject(path)].requests = plugins[Subject(path)].requests
                  /\ RegisterRequestResults(log', path) = {"NotFound"}
            /\ ( /\ RequestsNamed(requests, Offered.name) # {}
                 /\ \A k \in RequestsNamed(requests, Offered.name) :
                       ~Accepts(requests[k], Offered) )
               => /\ plugins'[Subject(path)].requests = plugins[Subject(path)].requests
                  /\ RegisterRequestResults(log', path) = {"ArgumentsIncorrectly"}
                  /\ (\A k \in 1..Len(plugins[Subject(path)].requests) :
                          plugins[Subject(path)].requests[k].name # Offered.name)
                     => /\ lastOp'.res = "RequestsNotFound"
                        /\ Offered.name \in Range(lastOp'.not_found)

\* C27: LoadPluginContext.register_request(f) appends f to the request table
\* iff the engine has a Request named f.name(), every input type of that
\* Request occurs among f's input types in any order and the outputs are
\* equal; otherwise it returns NotFound (no Request of the name) or
\* ArgumentsIncorrectly and leaves the table unchanged, and the coverage check
\* of the load reports the name as missing
RegisterRequestChecksSignature == [][RegisterRequestContract]_vars

\* a load returned Ok after its hook registered a Function whose two inputs
\* come in another order than the inputs of the Request
ReorderedInputsAcceptedSeen ==
    /\ lastOp.op = "load_plugin"
    /\ lastOp.res = "Ok"
    /\ Len(Offered.inputs) = 2
    /\ RegisterRequestResults(log, lastOp.path) = {"Ok"}
    /\ \E k \in RequestsNamed(requests, Offered.name) :
          Len(requests[k].inputs) = 2 /\ requests[k].inputs # Offered.inputs
    /\ Offered \in Range(plugins[Subject(lastOp.path)].requests)

\* a type matches another when they are equal or one of the two is Let
TypeMatches(t, u) == t = u \/ t = "Let" \/ u = "Let"

\* Accepts with Let matching every type
AcceptsWithAny(request, f) ==
    /\ \A i \in 1..Len(request.inputs) :
          \E j \in 1..Len(f.inputs) : TypeMatches(request.inputs[i], f.inputs[j])
    /\ \/ request.output = f.output
       \/ /\ request.output # None
          /\ f.output # None
          /\ TypeMatches(request.output, f.output)

AnyAccepted ==
    \A path \in Paths :
        ( /\ lastOp'.op = "load_plugin" /\ lastOp'.path = path /\ HookRan(log', path)
          /\ RequestsNamed(requests, Offered.name) # {}
          /\ \A k \in RequestsNamed(requests, Offered.name) :
                AcceptsWithAny(requests[k], Offered) )
        => RegisterRequestResults(log', path) = {"Ok"}

\* C28: in the signature check of register_request the type Let (Any) matches
\* any concrete type: a Request input or output declared Let is satisfied by
\* a Function argument of any type, and a Function argument declared Let
\* satisfies a Request input of any type
AnyMatchesEveryType == [][AnyAccepted]_vars

(***************************************************************************)
(* Coverage of the engine Requests by a loaded plugin.                     *)
(***************************************************************************)
\* the Requests for which the table holds no Function of the name
Uncovered(reqs, table) ==
    FilterSeq(reqs, {r \in Range(reqs) :
                        \A k \in 1..Len(table) : table[k].name # r.name})

\* the names of the Requests, in order
RequestNames(reqs) == [k \in 1..Len(reqs) |-> reqs[k].name]

LoadChecksCoverage ==
    \A path \in Paths :
        (lastOp'.op = "load_plugin" /\ lastOp'.path = path /\ HookRan(log', path)) =>
            IF Uncovered(requests, plugins'[Subject(path)].requests) # <<>>
              THEN /\ lastOp'.res = "RequestsNotFound"
                   /\ lastOp'.not_found =
                          RequestNames(Uncovered(requests,
                                                 plugins'[Subject(path)].requests))
                   /\ ~plugins'[Subject(path)].is_load
            ELSE /\ lastOp'.res = "Ok"
                 /\ plugins'[Subject(path)].is_load

\* C29: when the load hook succeeds, load_plugin returns RequestsNotFound(N)
\* iff the list N of engine Request names without a Function of that name in
\* the plugin's request table is non-empty, whatever the order in which the
\* plugin registered its requests; then is_loaded is false, otherwise
\* load_plugin returns Ok and is_loaded is true
RequestsNotFoundIffUncovered == [][LoadChecksCoverage]_vars

(***************************************************************************)
(* Refusals of register_plugin.                                            *)
(***************************************************************************)
\* the directory of the Catalog that an entry of kind plugin is
EntryPath(entry) == CHOOSE k \in Paths : fmt(DiskBundle(k)) = entry.name

\* no record has the id and version of the directory
NotRegistered(plugs, k) ==
    \A i \in 1..Len(plugs) :
        \/ plugs[i].bundle.id # Catalog[k].bundle.id
        \/ plugs[i].bundle.version # Catalog[k].bundle.version

RegisterPluginRefused ==
    \A entry \in env.disk :
        (lastOp'.op = "register_plugin" /\ lastOp'.entry = entry) =>
            /\ entry.kind = "file" => lastOp'.res = "NotFound" /\ plugins' = plugins
            /\ entry.kind = "no_extension"
               => /\ lastOp'.res = "UnknownManagerFormat"
                  /\ lastOp'.format = ""
                  /\ plugins' = plugins
            /\ entry.kind = "unparsable"
               => lastOp'.res = "BundleFrom" /\ plugins' = plugins
            /\ ( /\ entry.kind = "plugin"
                 /\ NotRegistered(plugins, EntryPath(entry))
                 /\ Catalog[EntryPath(entry)].bundle.format \notin Range(managers) )
               => /\ lastOp'.res = "UnknownManagerFormat"
                  /\ lastOp'.format = Catalog[EntryPath(entry)].bundle.format
                  /\ plugins' = plugins
            /\ ( /\ entry.kind = "plugin"
                 /\ NotRegistered(plugins, EntryPath(entry))
                 /\ Catalog[EntryPath(entry)].bundle.format \in Range(managers)
                 /\ <<"register_plugin", EntryPath(entry)>> \in env.failing )
               => lastOp'.res = "ByManager" /\ plugins' = plugins

Midway ==
    {plugins[i].bundle : i \in 1..Len(plugins)}
    \cup {Catalog[log'[k].path].bundle :
             k \in {m \in 1..Len(log') : log'[m].hook = "register_plugin" /\ log'[m].ok}}

\* the bundle is the highest version of its id that some Depend of a registered
\* plugin admits
BestMatchTarget(bundles, bundle) ==
    \E path \in Paths :
        /\ Catalog[path].bundle \in bundles
        /\ \E k \in 1..Len(AllDepends(Catalog[path])) :
              /\ DependEqBundle(AllDepends(Catalog[path])[k], bundle)
              /\ \A other \in bundles :
                    DependEqBundle(AllDepends(Catalog[path])[k], other)
                        => other.version <= bundle.version

\* a strictly higher version of the bundle's id is registered
Superseded(bundles, bundle) ==
    \E other \in bundles : other.id = bundle.id /\ other.version > bundle.version

\* the records load_only_used_plugins has to unregister
Unused(bundles) ==
    {b \in bundles : ~BestMatchTarget(bundles, b) /\ Superseded(bundles, b)}

OnlyUsedStep ==
    ( /\ lastOp'.op = "load_only_used_plugins"
      /\ lastOp'.res = "Ok" )
    => /\ {plugins'[i].bundle : i \in 1..Len(plugins')} = Midway \ Unused(Midway)
       /\ Range(lastOp'.found) = (Midway \ {plugins[i].bundle : i \in 1..Len(plugins)})
                                     \ Unused(Midway)
       /\ \A i, j \in 1..Len(lastOp'.found) :
              i # j => lastOp'.found[i] # lastOp'.found[j]

\* C31: load_only_used_plugins, after loading, unregisters exactly the records
\* that are the best match of no plugin's Depend and have a strictly higher
\* version of their id registered, keeps every other record, and returns the
\* bundles it registered without the unregistered ones
OnlyUsedUnregistersSuperseded == [][OnlyUsedStep]_vars
(***************************************************************************)
(* Parallel registration.                                                  *)
(***************************************************************************)
\* a parallel registration has returned
ParReturned ==
    /\ lastOp.op \in {"par_register_plugins", "par_register_managers"}
    /\ lastOp.res \notin {"Running", "Panic"}

\* the item of every worker that registered is in the list
NoInsertionLost ==
    ParReturned =>
        \A w \in 1..Len(lastOp.workers) :
            lastOp.workers[w].res = "Ok" =>
                IF lastOp.op = "par_register_plugins"
                  THEN \E i \in 1..Len(plugins) : plugins[i].path = lastOp.workers[w].item
                ELSE \E i \in 1..Len(managers) : managers[i] = lastOp.workers[w].item

\* C32: under every interleaving of the workers of par_register_plugins and
\* par_register_managers the duplicate test and the insertion of an item are
\* atomic: no two records share (id, version), no two managers share a
\* format, and no insertion is lost
ParRegisterAtomic ==
    /\ NoDuplicateIdVersion
    /\ NoDuplicateFormat
    /\ NoInsertionLost
\* the registered bundles with their is_loaded flags
Records(plugs) == {<<plugs[i].bundle, plugs[i].is_load>> : i \in 1..Len(plugs)}

SeqToBag(q) == [x \in Range(q) |-> Cardinality({i \in 1..Len(q) : q[i] = x})]

\* load_only_used_plugins on the engine and the paths that the running
\* par_load_only_used_plugins was called with
Sequential ==
    load_only_used_plugins(lastOp.start[1],
                           [w \in 1..Len(lastOp.workers) |-> lastOp.workers[w].item],
                           HookFunctions(<<>>))

\* the step in which par_load_only_used_plugins returns, for a call on which
\* load_only_used_plugins returns Ok
ParOnlyUsedReturns ==
    ( /\ lastOp.op = "par_load_only_used_plugins"
      /\ Running
      /\ lastOp'.res \notin {"Running", "Panic"}
      /\ Sequential.res = "Ok" )
    => /\ lastOp'.res = "Ok"
       /\ Records(plugins') = Records(Sequential.L.plugins)
       /\ SeqToBag(lastOp'.found) = SeqToBag(Sequential.bundles)
       /\ \A k \in 1..Len(lastOp'.found) :
              \E i \in 1..Len(plugins') : plugins'[i].bundle = lastOp'.found[k]

\* C33: par_load_only_used_plugins returns the bundles that
\* load_only_used_plugins returns on the same engine and paths and leaves the
\* same plugins registered and loaded; its list holds no bundle of a plugin it
\* has unregistered
ParOnlyUsedAgrees == [][ParOnlyUsedReturns]_vars
(***************************************************************************)
(* unregister_plugin.                                                      *)
(***************************************************************************)
\* a loaded record has a Depend that admits the record x while no registered
\* record has a greater version that the Depend's range admits
ReferencedAsBestMatch(plugs, x) ==
    \E p \in 1..Len(plugs) :
        /\ plugs[p].is_load
        /\ \E k \in 1..Len(AllDepends(plugs[p])) :
              /\ DependEqBundle(AllDepends(plugs[p])[k], plugs[x].bundle)
              /\ ~\E j \in 1..Len(plugs) :
                    /\ matches(AllDepends(plugs[p])[k].version, plugs[j].bundle.version)
                    /\ plugs[j].bundle.version > plugs[x].bundle.version

UnregisterRefused ==
    \A path \in Paths :
        (lastOp'.op = "unregister_plugin" /\ lastOp'.path = path) =>
            /\ ( /\ Subject(path) # 0
                 /\ plugins[Subject(path)].is_load
                 /\ ReferencedAsBestMatch(plugins, Subject(path)) )
               => /\ lastOp'.res = "UnloadError"
                  /\ log' = <<>>
                  /\ plugins' = plugins
            /\ Subject(path) = 0
               => /\ lastOp'.res = "NotFound"
                  /\ log' = <<>>
                  /\ plugins' = plugins
                  /\ managers' = managers
                  /\ requests' = requests

\* C34: unregister_plugin of a loaded plugin that a loaded dependent references
\* as best match returns UnloadError(CurrentlyUsesDepend), invokes neither the
\* unload nor the unregister hook and leaves the record registered and loaded
\* at its position; unregister_plugin of an unknown (id, version) returns
\* NotFound and changes nothing
UnregisterPropagatesRefusal == [][UnregisterRefused]_vars

\* unregister_plugin was refused for a loaded plugin that has a loaded dependent
UnregisterRefusedSeen ==
    /\ lastOp.op = "unregister_plugin"
    /\ lastOp.res = "UnloadError"
    /\ log = <<>>
    /\ Subject(lastOp.path) # 0
    /\ plugins[Subject(lastOp.path)].is_load
    /\ ReferencedAsBestMatch(plugins, Subject(lastOp.path))
    /\ \E p \in 1..Len(plugins) : p # Subject(lastOp.path) /\ plugins[p].is_load
(***************************************************************************)
(* unregister_manager: the order of the unloads.                           *)
(***************************************************************************)
\* every loaded record with a Depend that admits a record of the format has
\* that format itself
DependentsBound(plugs, format) ==
    \A p, q \in 1..Len(plugs) :
        ( /\ plugs[p].is_load
          /\ plugs[q].bundle.format = format
          /\ \E k \in 1..Len(AllDepends(plugs[p])) :
                DependEqBundle(AllDepends(plugs[p])[k], plugs[q].bundle) )
        => plugs[p].bundle.format = format

UnregisterManagerUnloads ==
    \A format \in Formats :
        ( /\ lastOp'.op = "unregister_manager"
          /\ lastOp'.format = format
          /\ format \in Range(managers)
          /\ DependentsBound(plugins, format) )
        => lastOp'.res = "Ok"

\* C35: unregister_manager(format) unloads the manager's plugins dependents
\* first: it returns Ok whenever the hooks succeed and every loaded plugin
\* that depends on one of the manager's plugins belongs to that manager, in
\* every registration order and also when two of the manager's plugins have
\* Depends of different ranges on the same dependency
UnregisterManagerDependentsFirst == [][UnregisterManagerUnloads]_vars
(***************************************************************************)
(* The manager back-reference of a plugin record.                          *)
(***************************************************************************)
\* C36: the manager back-reference of every plugin record designates a slot of
\* the manager list that holds a registered manager, and the format of that
\* manager is the format of the plugin's bundle
ManagerBackReferenceValid ==
    \A i \in 1..Len(plugins) :
        /\ plugins[i].manager \in 1..Len(managers)
        /\ managers[plugins[i].manager] = plugins[i].bundle.format
        /\ ManagerOf(Loader, plugins[i]) = plugins[i].bundle.format
(***************************************************************************)
(* sort_plugins.                                                           *)
(***************************************************************************)
\* no record is met again when following the Depends that admit a record
Acyclic(plugs) ==
    \A i \in 1..Len(plugs) :
        i \notin Reached(plugs, {j \in 1..Len(plugs) :
                                   /\ j # i
                                   /\ \E k \in 1..Len(AllDepends(plugs[i])) :
                                         j \in Resolved(plugs, AllDepends(plugs[i])[k])})

\* the order holds every index of the subset once and nothing else
Permutes(order, subset) ==
    /\ Len(order) = Len(subset)
    /\ Range(order) = Range(subset)

\* the records outside the subset, in list order
Outside(plugs, subset) ==
    [k \in 1..(Len(plugs) - Len(subset)) |->
        plugs[FilterSeq([i \in 1..Len(plugs) |-> i],
                        (1..Len(plugs)) \ Range(subset))[k]]]

UnregisterManagerSorts ==
    \A format \in Formats :
        ( /\ lastOp'.op = "unregister_manager"
          /\ lastOp'.format = format
          /\ get_manager_mut(Loader, format) # 0
          /\ Acyclic(plugins) )
        => /\ Permutes(sort_plugins(Loader, PluginsFromManager(Loader, get_manager_mut(Loader, format))),
                       PluginsFromManager(Loader, get_manager_mut(Loader, format)))
           /\ lastOp'.res # "Panic"
           /\ lastOp'.res = "Ok" =>
                  plugins' = Outside(plugins,
                                     PluginsFromManager(Loader, get_manager_mut(Loader, format)))

\* C37: for acyclic dependency metadata sort_plugins returns every index of
\* the subset once and no other index, also when a plugin of the subset is the
\* best match of a Depend inside and of a Depend outside the subset; so the
\* shifted removals of unregister_manager remove exactly the manager's plugins
\* and never index past the end of the plugin list
SortPluginsPermutesSubset == [][UnregisterManagerSorts]_vars
(***************************************************************************)
(* par_load_plugins.                                                       *)
(***************************************************************************)
\* the frames of the load pass whose load hook has been called
HookStarted ==
    IF lastOp.op = "par_load_plugins" /\ lastOp.start = <<"load">>
      THEN {f \in UNION {Range(lastOp.workers[w].stack) : w \in 1..Len(lastOp.workers)} :
               f.pc = "flag"}
    ELSE {}

\* C38: under every interleaving of the workers of par_load_plugins the load
\* hook of a plugin is invoked at most once, also when two plugins loaded in
\* parallel resolve a Depend to it, and a load hook is called only when the
\* load hooks of the resolved dependencies have returned and set is_loaded
ParLoadHooksOnce ==
    lastOp.op = "par_load_plugins" =>
        /\ \A path \in Paths : Cardinality(Calls(log, "load_plugin", path)) <= 1
        /\ \A f \in HookStarted :
              \A k \in 1..Len(f.found) :
                  \E i \in 1..Len(plugins) :
                      plugins[i].bundle = f.found[k].bundle /\ plugins[i].is_load
(***************************************************************************)
(* Termination.                                                            *)
(***************************************************************************)
\* C39: load_plugin and stop return Ok or an error for every set of registered
\* plugins, also when a plugin's Depend admits the plugin itself or two
\* plugins depend on each other: the recursion never runs out of stack
LoadAndStopReturn ==
    lastOp.op \in {"load_plugin", "stop"} => lastOp.res # "Overflow"
(***************************************************************************)
(* Request calls and the is_loaded flag.                                   *)
(***************************************************************************)
\* C40: call_request and par_call_request invoke a request Function only of a
\* plugin whose is_loaded flag is true: not of a plugin that was unloaded, nor
\* of one whose load ended in RequestsNotFound after it registered requests
RequestsOnlyOfLoaded ==
    lastOp.op \in {"call_request", "par_call_request"} =>
        \A k \in 1..Len(log) : log[k].hook = "request" => log[k].is_load
====
